---- MODULE Spec2Model ----
(***************************************************************************)
(* The multiplayer blackjack room server (stable-identity variant): one    *)
(* room, its roster, the rules engine, the dealer's asynchronous turn and  *)
(* the disconnect timers.                                                   *)
(*                                                                         *)
(* A socket is represented by the seat it is bound to: a seated player     *)
(* whose disconnected flag is clear has a live socket and can send         *)
(* requests; Outsider stands for a live socket bound to no seat.  The      *)
(* shoe is shuffled uniformly, so drawCard is a free choice of rank.       *)
(***************************************************************************)
EXTENDS Integers, Sequences, FiniteSets, TLC

\* ---------------------------------------------------------------- bounds
MaxHandCards == 3      \* cards a player hand may grow to by hitting
MaxTasks == 1          \* dealer-turn continuations in flight at once
MaxAutoStand == 1      \* pending auto-stand timers of one identity
MaxCards == 4          \* cards of a hand under evaluation

\* ------------------------------------------------------- program constants
STARTING_CHIPS == 1000
MaxSeats == 7
MaxHands == 4

\* identities that ever connect
Ids == {"p1", "p2", "p3", "p4", "p5", "p6", "p7", "p8"}
Creator == "p1"                     \* the identity that sent create-room
Outsider == "nobody"                \* a socket bound to no seat
NoPlayer == "null"                  \* activePlayerId = null
NoResult == "none"                  \* hand.result undefined

\* The tables checked: who connects, the ranks the shuffled shoe deals, the
\* amounts clients bet, whether their connections drop, the rounds dealt, and
\* the drops of a player while an auto-stand timer of theirs is pending.
Solo == [ids |-> {"p1"}, ranks |-> {"A", "K", "6"}, bets |-> {0, 601, 2000},
         drops |-> TRUE, rounds |-> 1, redrops |-> 1]
Duo == [ids |-> {"p1", "p2"}, ranks |-> {"K", "6"}, bets |-> {0, 600, 2000},
        drops |-> TRUE, rounds |-> 1, redrops |-> 0]
Trio == [ids |-> {"p1", "p2", "p3"}, ranks |-> {"A", "K"}, bets |-> {0, 600, 2000},
         drops |-> FALSE, rounds |-> 1, redrops |-> 0]
\* Tables whose wagers leave chips for doubling and splitting.
Pairs == [ids |-> {"p1"}, ranks |-> {"K", "10"}, bets |-> {0, 300, 2000},
          drops |-> FALSE, rounds |-> 1, redrops |-> 0]
Aces == [ids |-> {"p1"}, ranks |-> {"A", "K"}, bets |-> {0, 300, 2000},
         drops |-> FALSE, rounds |-> 1, redrops |-> 0]
Quads == [ids |-> {"p1"}, ranks |-> {"K"}, bets |-> {0, 100, 1000, 2000},
          drops |-> FALSE, rounds |-> 1, redrops |-> 0]
\* A table with one identity more than the room seats; no round is dealt.
Crowd == [ids |-> Ids, ranks |-> {"K"}, bets |-> {0, 100, 2000},
          drops |-> FALSE, rounds |-> 0, redrops |-> 0]
\* A lobby of three whose connections drop.
Hall == [ids |-> {"p1", "p2", "p3"}, ranks |-> {"K"}, bets |-> {0, 100, 2000},
         drops |-> TRUE, rounds |-> 0, redrops |-> 0]
Tables == {Solo, Duo, Trio, Pairs, Aces, Quads, Crowd, Hall}
\* The table of the dealer-turn specification.
Felt == [ids |-> {"p1"}, ranks |-> {"A", "6", "7", "10"}, bets |-> {100},
         drops |-> FALSE, rounds |-> 1, redrops |-> 0]
Actions == {"hit", "stand", "double", "split", "surrender"}

VARIABLES room, registered, drawTasks, settleTasks, autoStand, disconnectTimers, deals, table,
          lastBroadcast, deck, cardsHeld, valueHeld

vars == <<room, registered, drawTasks, settleTasks, autoStand, disconnectTimers, deals, table,
          lastBroadcast, deck, cardsHeld, valueHeld>>

\* ------------------------------------------------------------ deck helpers
\* The shoe is kept as the number of cards left in room.deck.
NumDecks == 6
DeckSize == 52
ReshuffleBelow == 20

createDeck(numDecks) == numDecks * DeckSize

\* drawCard popping without rebuilding a short shoe.
drawCardNoRebuild(d) == IF d > 0 THEN d - 1 ELSE 0

drawCard(d) == IF d < ReshuffleBelow THEN createDeck(NumDecks) - 1 ELSE d - 1

RECURSIVE DrawCards(_, _)
DrawCards(d, k) == IF k = 0 THEN d ELSE DrawCards(drawCard(d), k - 1)

cardValue(rank) ==
    IF rank = "A" THEN 11
    ELSE IF rank \in {"K", "Q", "J"} THEN 10
    ELSE CASE rank = "2" -> 2 [] rank = "3" -> 3 [] rank = "4" -> 4
           [] rank = "5" -> 5 [] rank = "6" -> 6 [] rank = "7" -> 7
           [] rank = "8" -> 8 [] rank = "9" -> 9 [] rank = "10" -> 10

RECURSIVE SumValues(_)
SumValues(cards) ==
    IF cards = <<>> THEN 0 ELSE cardValue(Head(cards)) + SumValues(Tail(cards))

CountAces(cards) == Cardinality({i \in DOMAIN cards : cards[i] = "A"})

RECURSIVE ReduceAces(_, _)
ReduceAces(total, aces) ==
    IF total > 21 /\ aces > 0 THEN ReduceAces(total - 10, aces - 1)
    ELSE [total |-> total, isSoft |-> aces > 0]

\* calculateHandValue calling a hand soft whenever it holds an ace.
calculateHandValueAnyAce(cards) ==
    [total |-> ReduceAces(SumValues(cards), CountAces(cards)).total,
     isSoft |-> CountAces(cards) > 0]

calculateHandValue(cards) == ReduceAces(SumValues(cards), CountAces(cards))

\* The copy in utils/deck.ts: card.value as createDeck sets it, one pass over
\* the hand, then the adjustment loop.
RANKS == {"2", "3", "4", "5", "6", "7", "8", "9", "10", "J", "Q", "K", "A"}

parseInt(rank) ==
    CASE rank = "2" -> 2 [] rank = "3" -> 3 [] rank = "4" -> 4 [] rank = "5" -> 5
      [] rank = "6" -> 6 [] rank = "7" -> 7 [] rank = "8" -> 8 [] rank = "9" -> 9
      [] rank = "10" -> 10

sharedCardValue(rank) ==
    IF rank = "A" THEN 11
    ELSE IF rank \in {"J", "Q", "K"} THEN 10
    ELSE parseInt(rank)

RECURSIVE sharedScan(_, _, _)
sharedScan(cards, total, aces) ==
    IF cards = <<>> THEN [total |-> total, aces |-> aces]
    ELSE sharedScan(Tail(cards), total + sharedCardValue(Head(cards)),
                    IF Head(cards) = "A" THEN aces + 1 ELSE aces)

RECURSIVE sharedAdjust(_, _)
sharedAdjust(total, aces) ==
    IF total > 21 /\ aces > 0 THEN sharedAdjust(total - 10, aces - 1)
    ELSE [total |-> total, isSoft |-> aces > 0]

sharedCalculateHandValue(cards) ==
    LET sc == sharedScan(cards, 0, 0) IN sharedAdjust(sc.total, sc.aces)

\* What both copies give for one hand.
Evaluate(cards) ==
    [server |-> calculateHandValue(cards), shared |-> sharedCalculateHandValue(cards)]

\* isStrictPair comparing the cards' values instead of their ranks.
isValuePair(cards) == Len(cards) = 2 /\ cardValue(cards[1]) = cardValue(cards[2])

isStrictPair(cards) == Len(cards) = 2 /\ cards[1] = cards[2]

\* ------------------------------------------------------------------ state
NewPlayer ==
    [chips |-> STARTING_CHIPS, hands |-> <<>>, currentBet |-> 0,
     hasBet |-> FALSE, isDone |-> FALSE, disconnected |-> FALSE]

World ==
    [room |-> room, registered |-> registered, draw |-> drawTasks,
     settle |-> settleTasks, ast |-> autoStand, dt |-> disconnectTimers,
     deals |-> deals]

Apply(w) ==
    /\ room' = w.room
    /\ registered' = w.registered
    /\ drawTasks' = w.draw
    /\ settleTasks' = w.settle
    /\ autoStand' = w.ast
    /\ disconnectTimers' = w.dt
    /\ deals' = w.deals
    /\ UNCHANGED <<table, deck, cardsHeld, valueHeld>>

Seated(r) == DOMAIN r.players

IndexOf(seq, x) ==
    IF \E i \in DOMAIN seq : seq[i] = x
    THEN CHOOSE i \in DOMAIN seq : seq[i] = x
    ELSE 0

SetMin(S) == CHOOSE x \in S : \A y \in S : x <= y

\* The seat a request's socket is bound to (findPlayerIdBySocket).
Senders(r) == {p \in Seated(r) : ~r.players[p].disconnected} \cup {Outsider}

Init ==
    /\ room = [hostId |-> Creator, phase |-> "lobby", order |-> <<Creator>>,
               players |-> [p \in {Creator} |-> NewPlayer],
               dealerHand |-> <<>>, activePlayerId |-> NoPlayer]
    /\ registered = TRUE
    /\ drawTasks = 0
    /\ settleTasks = 0
    /\ autoStand = [p \in Ids |-> 0]
    /\ disconnectTimers = {}
    /\ deals = 0
    /\ table \in Tables
    /\ lastBroadcast = room
    /\ deck = createDeck(NumDecks)
    /\ cardsHeld = <<>>
    /\ valueHeld = Evaluate(<<>>)

\* ----------------------------------------------------------- rules engine
\* SettleHand paying a blackjack with the half wager rounded up.
SettleHandCeil(hand, dTotal, dealerBust, dealerBJ) ==
    IF hand.result # NoResult THEN [hand |-> hand, pay |-> 0]
    ELSE LET pTotal == calculateHandValue(hand.cards).total
             playerBJ == hand.status = "blackjack"
         IN IF dealerBJ /\ playerBJ
                THEN [hand |-> [hand EXCEPT !.result = "push"], pay |-> hand.bet]
            ELSE IF dealerBJ
                THEN [hand |-> [hand EXCEPT !.result = "loss"], pay |-> 0]
            ELSE IF playerBJ
                THEN [hand |-> [hand EXCEPT !.result = "win"],
                      pay |-> hand.bet + ((hand.bet * 3 + 1) \div 2)]
            ELSE IF dealerBust \/ pTotal > dTotal
                THEN [hand |-> [hand EXCEPT !.result = "win"], pay |-> hand.bet * 2]
            ELSE IF pTotal < dTotal
                THEN [hand |-> [hand EXCEPT !.result = "loss"], pay |-> 0]
            ELSE [hand |-> [hand EXCEPT !.result = "push"], pay |-> hand.bet]

\* SettleHand without the skip of hands that already carry a result.
SettleHandNoSkip(hand, dTotal, dealerBust, dealerBJ) ==
    LET pTotal == calculateHandValue(hand.cards).total
        playerBJ == hand.status = "blackjack"
    IN IF dealerBJ /\ playerBJ
           THEN [hand |-> [hand EXCEPT !.result = "push"], pay |-> hand.bet]
       ELSE IF dealerBJ
           THEN [hand |-> [hand EXCEPT !.result = "loss"], pay |-> 0]
       ELSE IF playerBJ
           THEN [hand |-> [hand EXCEPT !.result = "win"],
                 pay |-> hand.bet + ((hand.bet * 3) \div 2)]
       ELSE IF dealerBust \/ pTotal > dTotal
           THEN [hand |-> [hand EXCEPT !.result = "win"], pay |-> hand.bet * 2]
       ELSE IF pTotal < dTotal
           THEN [hand |-> [hand EXCEPT !.result = "loss"], pay |-> 0]
       ELSE [hand |-> [hand EXCEPT !.result = "push"], pay |-> hand.bet]

\* One iteration of the inner loop of resolveAllResults: the hand as settled
\* and the chips credited for it.
SettleHand(hand, dTotal, dealerBust, dealerBJ) ==
    IF hand.result # NoResult THEN [hand |-> hand, pay |-> 0]
    ELSE LET pTotal == calculateHandValue(hand.cards).total
             playerBJ == hand.status = "blackjack"
         IN IF dealerBJ /\ playerBJ
                THEN [hand |-> [hand EXCEPT !.result = "push"], pay |-> hand.bet]
            ELSE IF dealerBJ
                THEN [hand |-> [hand EXCEPT !.result = "loss"], pay |-> 0]
            ELSE IF playerBJ
                THEN [hand |-> [hand EXCEPT !.result = "win"],
                      pay |-> hand.bet + ((hand.bet * 3) \div 2)]
            ELSE IF dealerBust
                THEN [hand |-> [hand EXCEPT !.result = "win"], pay |-> hand.bet * 2]
            ELSE IF pTotal > dTotal
                THEN [hand |-> [hand EXCEPT !.result = "win"], pay |-> hand.bet * 2]
            ELSE IF pTotal < dTotal
                THEN [hand |-> [hand EXCEPT !.result = "loss"], pay |-> 0]
            ELSE [hand |-> [hand EXCEPT !.result = "push"], pay |-> hand.bet]

RECURSIVE SumPay(_)
SumPay(settled) ==
    IF settled = <<>> THEN 0 ELSE Head(settled).pay + SumPay(Tail(settled))

resolveAllResults(r) ==
    LET dTotal == calculateHandValue(r.dealerHand).total
        dealerBust == dTotal > 21
        dealerBJ == Len(r.dealerHand) = 2 /\ dTotal = 21
        settled(p) == [i \in DOMAIN r.players[p].hands |->
                          SettleHand(r.players[p].hands[i], dTotal, dealerBust, dealerBJ)]
    IN [r EXCEPT !.phase = "results",
                 !.players = [p \in Seated(r) |->
                     [r.players[p] EXCEPT
                         !.hands = [i \in DOMAIN settled(p) |-> settled(p)[i].hand],
                         !.chips = @ + SumPay(settled(p))]]]

\* DealerMustDraw standing on every 17.
DealerStandsOnSoft17(cards) == calculateHandValue(cards).total < 17

DealerMustDraw(cards) ==
    LET hv == calculateHandValue(cards)
    IN hv.total < 17 \/ (hv.total = 17 /\ hv.isSoft)

hasLiveHands(r) ==
    \E p \in Seated(r) : \E i \in DOMAIN r.players[p].hands :
        r.players[p].hands[i].status \notin {"busted", "blackjack"}

\* runDealerTurn drawing without looking for a live hand.
runDealerTurnAlwaysPlays(w) ==
    LET r == [w.room EXCEPT !.phase = "dealer_turn", !.activePlayerId = NoPlayer]
    IN IF DealerMustDraw(r.dealerHand)
       THEN [w EXCEPT !.room = r, !.draw = @ + 1]
       ELSE [w EXCEPT !.room = r, !.settle = @ + 1]

\* runDealerTurn up to its first await: the continuation left sleeping is a
\* draw (the loop body) or the settlement.
runDealerTurn(w) ==
    LET r == [w.room EXCEPT !.phase = "dealer_turn", !.activePlayerId = NoPlayer]
    IN IF hasLiveHands(r) /\ DealerMustDraw(r.dealerHand)
       THEN [w EXCEPT !.room = r, !.draw = @ + 1]
       ELSE [w EXCEPT !.room = r, !.settle = @ + 1]

\* advanceToNextPlayer scanning the roster from its start.
advanceFromStart(w) ==
    LET r == w.room
        playerIds == r.order
        next == {i \in 1..Len(playerIds) :
                    /\ ~r.players[playerIds[i]].isDone
                    /\ ~r.players[playerIds[i]].disconnected}
    IN IF next # {}
       THEN [w EXCEPT !.room.activePlayerId = playerIds[SetMin(next)]]
       ELSE runDealerTurn(w)

advanceToNextPlayer(w) ==
    LET r == w.room
        playerIds == r.order
        currentIdx == IndexOf(playerIds, r.activePlayerId)
        next == {i \in (currentIdx + 1)..Len(playerIds) :
                    /\ ~r.players[playerIds[i]].isDone
                    /\ ~r.players[playerIds[i]].disconnected}
    IN IF next # {}
       THEN [w EXCEPT !.room.activePlayerId = playerIds[SetMin(next)]]
       ELSE runDealerTurn(w)

\* handleHit marking the bust without recording the loss.
handleHitNoLoss(r, p, hi, card) ==
    LET cards == Append(r.players[p].hands[hi].cards, card)
    IN IF calculateHandValue(cards).total > 21
       THEN [r EXCEPT !.players[p].hands[hi].cards = cards,
                      !.players[p].hands[hi].status = "busted"]
       ELSE [r EXCEPT !.players[p].hands[hi].cards = cards]

handleHit(r, p, hi, card) ==
    LET cards == Append(r.players[p].hands[hi].cards, card)
    IN IF calculateHandValue(cards).total > 21
       THEN [r EXCEPT !.players[p].hands[hi].cards = cards,
                      !.players[p].hands[hi].status = "busted",
                      !.players[p].hands[hi].result = "loss"]
       ELSE [r EXCEPT !.players[p].hands[hi].cards = cards]

handleStand(r, p, hi) == [r EXCEPT !.players[p].hands[hi].status = "standing"]

\* handleDouble standing on whatever total the drawn card makes.
handleDoubleAlwaysStands(r, p, hi, card) ==
    LET hand == r.players[p].hands[hi]
        cards == Append(hand.cards, card)
    IN IF Len(hand.cards) # 2 THEN r
       ELSE IF r.players[p].chips < hand.bet THEN r
       ELSE [r EXCEPT !.players[p].chips = @ - hand.bet,
                      !.players[p].hands[hi] =
                          [hand EXCEPT !.bet = @ * 2, !.cards = cards,
                                       !.status = "standing"]]

\* handleDouble without the check that the chips cover the extra wager.
handleDoubleUnfunded(r, p, hi, card) ==
    LET hand == r.players[p].hands[hi]
        cards == Append(hand.cards, card)
    IN IF Len(hand.cards) # 2 THEN r
       ELSE [r EXCEPT !.players[p].chips = @ - hand.bet,
                      !.players[p].hands[hi] =
                          IF calculateHandValue(cards).total > 21
                          THEN [hand EXCEPT !.bet = @ * 2, !.cards = cards,
                                            !.status = "busted", !.result = "loss"]
                          ELSE [hand EXCEPT !.bet = @ * 2, !.cards = cards,
                                            !.status = "standing"]]

handleDouble(r, p, hi, card) ==
    LET hand == r.players[p].hands[hi]
        cards == Append(hand.cards, card)
    IN IF Len(hand.cards) # 2 THEN r
       ELSE IF r.players[p].chips < hand.bet THEN r
       ELSE [r EXCEPT !.players[p].chips = @ - hand.bet,
                      !.players[p].hands[hi] =
                          IF calculateHandValue(cards).total > 21
                          THEN [hand EXCEPT !.bet = @ * 2, !.cards = cards,
                                            !.status = "busted", !.result = "loss"]
                          ELSE [hand EXCEPT !.bet = @ * 2, !.cards = cards,
                                            !.status = "standing"]]

\* Array.prototype.splice(hi, 1, hand1, hand2)
Splice(hands, hi, hand1, hand2) ==
    SubSeq(hands, 1, hi - 1) \o <<hand1, hand2>> \o SubSeq(hands, hi + 1, Len(hands))

\* handleSplit leaving split Aces open to play like any other pair.
handleSplitAcesPlay(r, p, hi, card1, card2) ==
    LET hand == r.players[p].hands[hi]
        st == "playing"
        hand1 == [cards |-> <<hand.cards[1], card1>>, bet |-> hand.bet,
                  status |-> st, result |-> NoResult]
        hand2 == [cards |-> <<hand.cards[2], card2>>, bet |-> hand.bet,
                  status |-> st, result |-> NoResult]
    IN IF ~isStrictPair(hand.cards) THEN r
       ELSE IF Len(r.players[p].hands) >= MaxHands THEN r
       ELSE IF r.players[p].chips < hand.bet THEN r
       ELSE [r EXCEPT !.players[p].chips = @ - hand.bet,
                      !.players[p].hands = Splice(@, hi, hand1, hand2)]

handleSplit(r, p, hi, card1, card2) ==
    LET hand == r.players[p].hands[hi]
        st == IF hand.cards[1] = "A" THEN "standing" ELSE "playing"
        hand1 == [cards |-> <<hand.cards[1], card1>>, bet |-> hand.bet,
                  status |-> st, result |-> NoResult]
        hand2 == [cards |-> <<hand.cards[2], card2>>, bet |-> hand.bet,
                  status |-> st, result |-> NoResult]
    IN IF ~isStrictPair(hand.cards) THEN r
       ELSE IF Len(r.players[p].hands) >= MaxHands THEN r
       ELSE IF r.players[p].chips < hand.bet THEN r
       ELSE [r EXCEPT !.players[p].chips = @ - hand.bet,
                      !.players[p].hands = Splice(@, hi, hand1, hand2)]

\* dealRound without the check for a dealer blackjack.
dealRoundNoPeek(w, cs) ==
    LET r == w.room
        playerIds == SelectSeq(r.order, LAMBDA pid : ~r.players[pid].disconnected)
        n == Len(playerIds)
        k(pid) == IndexOf(playerIds, pid)
        c1(pid) == cs[2 * k(pid) - 1]
        c2(pid) == cs[2 * k(pid)]
        bj(pid) == calculateHandValue(<<c1(pid), c2(pid)>>).total = 21
        dealt == [pid \in Seated(r) |->
                    IF r.players[pid].disconnected THEN r.players[pid]
                    ELSE [r.players[pid] EXCEPT
                            !.hands = <<[cards |-> <<c1(pid), c2(pid)>>,
                                         bet |-> r.players[pid].currentBet,
                                         status |-> IF bj(pid) THEN "blackjack" ELSE "playing",
                                         result |-> NoResult]>>,
                            !.isDone = IF bj(pid) THEN TRUE ELSE @]]
        r1 == [r EXCEPT !.phase = "player_turns", !.players = dealt,
                        !.dealerHand = <<cs[2 * n + 1], cs[2 * n + 2]>>]
        notDone == {i \in 1..n : ~dealt[playerIds[i]].isDone}
        w1 == [w EXCEPT !.room = r1, !.deals = @ + 1]
    IN IF notDone # {}
       THEN [w1 EXCEPT !.room.activePlayerId = playerIds[SetMin(notDone)]]
       ELSE runDealerTurn(w1)

\* dealRound; cs is the sequence of cards drawCard returns during it.
\* dealRound giving the turn to the first dealt seat, done or not.
dealRoundFirstSeat(w, cs) ==
    LET r == w.room
        playerIds == SelectSeq(r.order, LAMBDA pid : ~r.players[pid].disconnected)
        n == Len(playerIds)
        k(pid) == IndexOf(playerIds, pid)
        c1(pid) == cs[2 * k(pid) - 1]
        c2(pid) == cs[2 * k(pid)]
        bj(pid) == calculateHandValue(<<c1(pid), c2(pid)>>).total = 21
        dealt == [pid \in Seated(r) |->
                    IF r.players[pid].disconnected THEN r.players[pid]
                    ELSE [r.players[pid] EXCEPT
                            !.hands = <<[cards |-> <<c1(pid), c2(pid)>>,
                                         bet |-> r.players[pid].currentBet,
                                         status |-> IF bj(pid) THEN "blackjack" ELSE "playing",
                                         result |-> NoResult]>>,
                            !.isDone = IF bj(pid) THEN TRUE ELSE @]]
        r1 == [r EXCEPT !.phase = "player_turns", !.players = dealt,
                        !.dealerHand = <<cs[2 * n + 1], cs[2 * n + 2]>>]
        notDone == {i \in 1..n : ~dealt[playerIds[i]].isDone}
        w1 == [w EXCEPT !.room = r1, !.deals = @ + 1]
    IN IF calculateHandValue(r1.dealerHand).total = 21
       THEN [w1 EXCEPT !.room = resolveAllResults(r1)]
       ELSE IF notDone # {}
       THEN [w1 EXCEPT !.room.activePlayerId = playerIds[1]]
       ELSE runDealerTurn(w1)

\* ------------------------------------------------------------ room management
dealRound(w, cs) ==
    LET r == w.room
        playerIds == SelectSeq(r.order, LAMBDA pid : ~r.players[pid].disconnected)
        n == Len(playerIds)
        k(pid) == IndexOf(playerIds, pid)
        c1(pid) == cs[2 * k(pid) - 1]
        c2(pid) == cs[2 * k(pid)]
        bj(pid) == calculateHandValue(<<c1(pid), c2(pid)>>).total = 21
        dealt == [pid \in Seated(r) |->
                    IF r.players[pid].disconnected THEN r.players[pid]
                    ELSE [r.players[pid] EXCEPT
                            !.hands = <<[cards |-> <<c1(pid), c2(pid)>>,
                                         bet |-> r.players[pid].currentBet,
                                         status |-> IF bj(pid) THEN "blackjack" ELSE "playing",
                                         result |-> NoResult]>>,
                            !.isDone = IF bj(pid) THEN TRUE ELSE @]]
        r1 == [r EXCEPT !.phase = "player_turns", !.players = dealt,
                        !.dealerHand = <<cs[2 * n + 1], cs[2 * n + 2]>>]
        notDone == {i \in 1..n : ~dealt[playerIds[i]].isDone}
        w1 == [w EXCEPT !.room = r1, !.deals = @ + 1]
    IN IF calculateHandValue(r1.dealerHand).total = 21
       THEN [w1 EXCEPT !.room = resolveAllResults(r1)]
       ELSE IF notDone # {}
       THEN [w1 EXCEPT !.room.activePlayerId = playerIds[SetMin(notDone)]]
       ELSE runDealerTurn(w1)

\* ------------------------------------------------------------ room management
Remove(seq, x) == SelectSeq(seq, LAMBDA y : y # x)

\* removePlayer leaving an emptied room in the registry.
removePlayerKeepsRoom(w, playerId) ==
    LET r == w.room
        wasActive == r.activePlayerId = playerId
        order1 == Remove(r.order, playerId)
        players1 == [p \in Seated(r) \ {playerId} |-> r.players[p]]
        connected == {i \in DOMAIN order1 : ~players1[order1[i]].disconnected}
        host1 == IF r.hostId # playerId THEN r.hostId
                 ELSE IF connected # {} THEN order1[SetMin(connected)]
                 ELSE order1[1]
        r1 == [r EXCEPT !.order = order1, !.players = players1]
    IN IF order1 = <<>>
       THEN [w EXCEPT !.room = r1]
       ELSE LET w1 == [w EXCEPT !.room = [r1 EXCEPT !.hostId = host1]]
            IN IF wasActive /\ r.phase = "player_turns"
               THEN advanceToNextPlayer(w1)
               ELSE w1

\* removePlayer handing the host role to the first remaining seat.
removePlayerFirstSeat(w, playerId) ==
    LET r == w.room
        wasActive == r.activePlayerId = playerId
        order1 == Remove(r.order, playerId)
        players1 == [p \in Seated(r) \ {playerId} |-> r.players[p]]
        connected == {i \in DOMAIN order1 : ~players1[order1[i]].disconnected}
        host1 == IF r.hostId # playerId THEN r.hostId
                 ELSE IF connected # {} THEN order1[1]
                 ELSE order1[1]
        r1 == [r EXCEPT !.order = order1, !.players = players1]
    IN IF order1 = <<>>
       THEN [w EXCEPT !.room = r1, !.registered = FALSE]
       ELSE LET w1 == [w EXCEPT !.room = [r1 EXCEPT !.hostId = host1]]
            IN IF wasActive /\ r.phase = "player_turns"
               THEN advanceToNextPlayer(w1)
               ELSE w1

removePlayer(w, playerId) ==
    LET r == w.room
        wasActive == r.activePlayerId = playerId
        order1 == Remove(r.order, playerId)
        players1 == [p \in Seated(r) \ {playerId} |-> r.players[p]]
        connected == {i \in DOMAIN order1 : ~players1[order1[i]].disconnected}
        host1 == IF r.hostId # playerId THEN r.hostId
                 ELSE IF connected # {} THEN order1[SetMin(connected)]
                 ELSE order1[1]
        r1 == [r EXCEPT !.order = order1, !.players = players1]
    IN IF order1 = <<>>
       THEN [w EXCEPT !.room = r1, !.registered = FALSE]
       ELSE LET w1 == [w EXCEPT !.room = [r1 EXCEPT !.hostId = host1]]
            IN IF wasActive /\ r.phase = "player_turns"
               THEN advanceToNextPlayer(w1)
               ELSE w1

\* ------------------------------------------------------------ socket handlers
ResetPlayer(pl) ==
    [pl EXCEPT !.hasBet = FALSE, !.currentBet = 0, !.hands = <<>>, !.isDone = FALSE]

\* joinRoom seating a newcomer in any phase.
joinRoomAnyPhase(w, playerId) ==
    LET r == w.room
    IN IF ~w.registered THEN w
       ELSE IF Cardinality(Seated(r)) >= MaxSeats THEN w
       ELSE IF playerId \in Seated(r) THEN w
       ELSE [w EXCEPT !.room.order = Append(@, playerId),
                      !.room.players = [p \in Seated(r) \cup {playerId} |->
                          IF p = playerId THEN NewPlayer ELSE r.players[p]]]

joinRoom(w, playerId) ==
    LET r == w.room
    IN IF ~w.registered THEN w
       ELSE IF r.phase # "lobby" THEN w
       ELSE IF Cardinality(Seated(r)) >= MaxSeats THEN w
       ELSE IF playerId \in Seated(r) THEN w
       ELSE [w EXCEPT !.room.order = Append(@, playerId),
                      !.room.players = [p \in Seated(r) \cup {playerId} |->
                          IF p = playerId THEN NewPlayer ELSE r.players[p]]]

\* What join-room emits to the requesting socket.
joinReply(w, playerId) ==
    LET r == w.room
    IN IF ~w.registered THEN "Room not found"
       ELSE IF r.phase # "lobby" THEN "Game already in progress"
       ELSE IF Cardinality(Seated(r)) >= MaxSeats THEN "Room is full (max 7)"
       ELSE IF playerId \in Seated(r) THEN "Already in this room"
       ELSE "room-joined"

\* rejoinRoom leaving the grace timer of the identity running.
rejoinRoomKeepsTimer(w, playerId) ==
    LET r == w.room
    IN IF ~w.registered THEN w
       ELSE IF playerId \notin Seated(r) THEN w
       ELSE [w EXCEPT !.room.players[playerId].disconnected = FALSE]

rejoinRoom(w, playerId) ==
    LET r == w.room
    IN IF ~w.registered THEN w
       ELSE IF playerId \notin Seated(r) THEN w
       ELSE [w EXCEPT !.dt = @ \ {playerId},
                      !.room.players[playerId].disconnected = FALSE]

\* What rejoin-room emits to the requesting socket.
rejoinReply(w, playerId) ==
    IF ~w.registered THEN "Room no longer exists"
    ELSE IF playerId \notin Seated(w.room) THEN "You are no longer in this room"
    ELSE "rejoin-success"

\* startGame without the host check.
startGameAnyone(w, sender) ==
    LET r == w.room
    IN IF ~w.registered \/ sender = Outsider THEN w
       ELSE IF Cardinality(Seated(r)) < 1 THEN w
       ELSE [w EXCEPT !.room.phase = "betting",
                      !.room.players = [p \in Seated(r) |-> ResetPlayer(r.players[p])],
                      !.room.dealerHand = <<>>]

startGame(w, sender) ==
    LET r == w.room
    IN IF ~w.registered \/ sender = Outsider \/ r.hostId # sender THEN w
       ELSE IF Cardinality(Seated(r)) < 1 THEN w
       ELSE [w EXCEPT !.room.phase = "betting",
                      !.room.players = [p \in Seated(r) |-> ResetPlayer(r.players[p])],
                      !.room.dealerHand = <<>>]

\* placeBet without the check that the player has not bet yet.
placeBetAgain(w, sender, amount) ==
    LET r == w.room
    IN IF ~w.registered \/ r.phase # "betting" THEN w
       ELSE IF sender = Outsider THEN w
       ELSE IF sender \notin Seated(r) THEN w
       ELSE IF amount <= 0 \/ amount > r.players[sender].chips THEN w
       ELSE [w EXCEPT !.room.players[sender].currentBet = amount,
                      !.room.players[sender].chips = @ - amount,
                      !.room.players[sender].hasBet = TRUE]

\* placeBet accepting an amount above the balance.
placeBetUncovered(w, sender, amount) ==
    LET r == w.room
    IN IF ~w.registered \/ r.phase # "betting" THEN w
       ELSE IF sender = Outsider THEN w
       ELSE IF sender \notin Seated(r) \/ r.players[sender].hasBet THEN w
       ELSE IF amount <= 0 THEN w
       ELSE [w EXCEPT !.room.players[sender].currentBet = amount,
                      !.room.players[sender].chips = @ - amount,
                      !.room.players[sender].hasBet = TRUE]

\* place-bet up to the broadcast: validation and the bet itself.
placeBet(w, sender, amount) ==
    LET r == w.room
    IN IF ~w.registered \/ r.phase # "betting" THEN w
       ELSE IF sender = Outsider THEN w
       ELSE IF sender \notin Seated(r) \/ r.players[sender].hasBet THEN w
       ELSE IF amount <= 0 \/ amount > r.players[sender].chips THEN w
       ELSE [w EXCEPT !.room.players[sender].currentBet = amount,
                      !.room.players[sender].chips = @ - amount,
                      !.room.players[sender].hasBet = TRUE]

allBet(r) == \A p \in Seated(r) : r.players[p].hasBet \/ r.players[p].disconnected

\* ActionAccepted without the check that the sender is the active player.
ActionAcceptedAnySender(w, sender, hi) ==
    /\ w.registered
    /\ w.room.phase = "player_turns"
    /\ sender # Outsider
    /\ sender \in Seated(w.room)
    /\ hi \in DOMAIN w.room.players[sender].hands
    /\ w.room.players[sender].hands[hi].status = "playing"

\* player-action validation (the early returns of the handler).
ActionAccepted(w, sender, hi) ==
    /\ w.registered
    /\ w.room.phase = "player_turns"
    /\ sender # Outsider
    /\ w.room.activePlayerId = sender
    /\ sender \in Seated(w.room)
    /\ hi \in DOMAIN w.room.players[sender].hands
    /\ w.room.players[sender].hands[hi].status = "playing"

\* hi0 is the request's 0-based handIndex; cs the cards drawCard returns.
playerAction(w, sender, action, hi0, cs) ==
    LET hi == hi0 + 1
    IN IF ~ActionAccepted(w, sender, hi) THEN w
       ELSE LET r == w.room
                r1 == CASE action = "hit" -> handleHit(r, sender, hi, cs[1])
                        [] action = "stand" -> handleStand(r, sender, hi)
                        [] action = "double" -> handleDouble(r, sender, hi, cs[1])
                        [] action = "split" -> handleSplit(r, sender, hi, cs[1], cs[2])
                        [] OTHER -> r
                allHandsDone == \A i \in DOMAIN r1.players[sender].hands :
                                    r1.players[sender].hands[i].status # "playing"
            IN IF allHandsDone
               THEN advanceToNextPlayer(
                        [w EXCEPT !.room = [r1 EXCEPT !.players[sender].isDone = TRUE]])
               ELSE [w EXCEPT !.room = r1]

RECURSIVE RemoveDisconnected(_, _)
RemoveDisconnected(w, pids) ==
    IF pids = <<>> THEN w
    ELSE LET pid == Head(pids)
         IN IF pid \in Seated(w.room) /\ w.room.players[pid].disconnected
            THEN RemoveDisconnected(removePlayer(w, pid), Tail(pids))
            ELSE RemoveDisconnected(w, Tail(pids))

\* nextRound sending the room back to the lobby.
nextRoundToLobby(w, sender) ==
    IF ~w.registered \/ sender = Outsider \/ w.room.hostId # sender THEN w
    ELSE LET w1 == RemoveDisconnected(w, w.room.order)
             r1 == w1.room
         IN [w1 EXCEPT !.room = [r1 EXCEPT
                !.phase = "lobby", !.dealerHand = <<>>, !.activePlayerId = NoPlayer,
                !.players = [p \in Seated(r1) |-> ResetPlayer(r1.players[p])]]]

\* nextRound keeping the disconnected players seated.
nextRoundKeepsAll(w, sender) ==
    IF ~w.registered \/ sender = Outsider \/ w.room.hostId # sender THEN w
    ELSE LET w1 == w
             r1 == w1.room
         IN [w1 EXCEPT !.room = [r1 EXCEPT
                !.phase = "betting", !.dealerHand = <<>>, !.activePlayerId = NoPlayer,
                !.players = [p \in Seated(r1) |-> ResetPlayer(r1.players[p])]]]

nextRound(w, sender) ==
    IF ~w.registered \/ sender = Outsider \/ w.room.hostId # sender THEN w
    ELSE LET w1 == RemoveDisconnected(w, w.room.order)
             r1 == w1.room
         IN [w1 EXCEPT !.room = [r1 EXCEPT
                !.phase = "betting", !.dealerHand = <<>>, !.activePlayerId = NoPlayer,
                !.players = [p \in Seated(r1) |-> ResetPlayer(r1.players[p])]]]

\* disconnect marking the player done as well.
disconnectForfeits(w, playerId) ==
    LET r == w.room
        w1 == [w EXCEPT !.room.players[playerId].disconnected = TRUE,
                        !.room.players[playerId].isDone = TRUE,
                        !.dt = @ \cup {playerId}]
    IN IF r.phase = "player_turns" /\ r.activePlayerId = playerId
       THEN [w1 EXCEPT !.ast[playerId] = @ + 1]
       ELSE w1

disconnect(w, playerId) ==
    LET r == w.room
        w1 == [w EXCEPT !.room.players[playerId].disconnected = TRUE,
                        !.dt = @ \cup {playerId}]
    IN IF r.phase = "player_turns" /\ r.activePlayerId = playerId
       THEN [w1 EXCEPT !.ast[playerId] = @ + 1]
       ELSE w1

\* autoStandTimeout standing the hands without passing the turn.
autoStandTimeoutNoAdvance(w, playerId) ==
    LET r == w.room
        w1 == [w EXCEPT !.ast[playerId] = @ - 1]
    IN IF playerId \in Seated(r) /\ r.players[playerId].disconnected
          /\ r.activePlayerId = playerId
       THEN (
                [w1 EXCEPT !.room.players[playerId].hands =
                               [i \in DOMAIN @ |->
                                   IF @[i].status = "playing"
                                   THEN [@[i] EXCEPT !.status = "standing"] ELSE @[i]],
                           !.room.players[playerId].isDone = TRUE])
       ELSE w1

\* The callback of the 5 s timer.
autoStandTimeout(w, playerId) ==
    LET r == w.room
        w1 == [w EXCEPT !.ast[playerId] = @ - 1]
    IN IF playerId \in Seated(r) /\ r.players[playerId].disconnected
          /\ r.activePlayerId = playerId
       THEN advanceToNextPlayer(
                [w1 EXCEPT !.room.players[playerId].hands =
                               [i \in DOMAIN @ |->
                                   IF @[i].status = "playing"
                                   THEN [@[i] EXCEPT !.status = "standing"] ELSE @[i]],
                           !.room.players[playerId].isDone = TRUE])
       ELSE w1

\* The callback of the DISCONNECT_GRACE_MS timer.
graceTimeout(w, playerId) ==
    LET w1 == [w EXCEPT !.dt = @ \ {playerId}]
    IN IF ~w.registered THEN w1
       ELSE IF playerId \notin Seated(w.room) \/ ~w.room.players[playerId].disconnected
       THEN w1
       ELSE removePlayer(w1, playerId)

\* runDealerTurn resumed after sleep(700): one pass of the loop body.
dealerDraw(w, card) ==
    LET cards == Append(w.room.dealerHand, card)
    IN IF DealerMustDraw(cards)
       THEN [w EXCEPT !.room.dealerHand = cards]
       ELSE [w EXCEPT !.room.dealerHand = cards, !.draw = @ - 1, !.settle = @ + 1]

\* runDealerTurn resumed after sleep(500).
dealerSettle(w) == [w EXCEPT !.room = resolveAllResults(w.room), !.settle = @ - 1]

\* -------------------------------------------------------------- broadcasts
\* serializeRoom copies hostId, phase, the players in seating order with their
\* chips, hands and flags, the dealer hand and activePlayerId: every field of
\* the room record.
serializeRoom(r) == r

\* The room-update snapshots each function or handler emits, in program order.
runDealerTurnEmits(w) == <<serializeRoom(runDealerTurn(w).room)>>

\* advanceToNextPlayer emitting nothing.
advanceToNextPlayerSilent(w) == <<>>

advanceToNextPlayerEmits(w) ==
    LET r == w.room
        playerIds == r.order
        currentIdx == IndexOf(playerIds, r.activePlayerId)
        next == {i \in (currentIdx + 1)..Len(playerIds) :
                    /\ ~r.players[playerIds[i]].isDone
                    /\ ~r.players[playerIds[i]].disconnected}
    IN IF next # {}
       THEN <<serializeRoom(advanceToNextPlayer(w).room)>>
       ELSE runDealerTurnEmits(w)

dealRoundEmits(w, cs) ==
    LET w2 == dealRound(w, cs)
    IN IF calculateHandValue(w2.room.dealerHand).total = 21
       THEN <<serializeRoom(w2.room)>>
       ELSE IF w2.room.phase = "player_turns"
       THEN <<serializeRoom(w2.room)>>
       ELSE <<serializeRoom(w2.room), serializeRoom(w2.room)>>

removePlayerEmits(w, playerId) ==
    LET r == w.room
        wasActive == r.activePlayerId = playerId
        order1 == Remove(r.order, playerId)
        players1 == [p \in Seated(r) \ {playerId} |-> r.players[p]]
        connected == {i \in DOMAIN order1 : ~players1[order1[i]].disconnected}
        host1 == IF r.hostId # playerId THEN r.hostId
                 ELSE IF connected # {} THEN order1[SetMin(connected)]
                 ELSE order1[1]
    IN IF order1 = <<>> THEN <<>>
       ELSE LET w1 == [w EXCEPT !.room = [r EXCEPT !.order = order1,
                                                   !.players = players1,
                                                   !.hostId = host1]]
            IN IF wasActive /\ r.phase = "player_turns"
               THEN <<serializeRoom(w1.room)>> \o advanceToNextPlayerEmits(w1)
                       \o <<serializeRoom(advanceToNextPlayer(w1).room)>>
               ELSE <<serializeRoom(w1.room)>>

joinRoomEmits(w, playerId) ==
    LET r == w.room
    IN IF ~w.registered THEN <<>>
       ELSE IF r.phase # "lobby" THEN <<>>
       ELSE IF Cardinality(Seated(r)) >= MaxSeats THEN <<>>
       ELSE IF playerId \in Seated(r) THEN <<>>
       ELSE <<serializeRoom(joinRoom(w, playerId).room)>>

rejoinRoomEmits(w, playerId) ==
    IF ~w.registered THEN <<>>
    ELSE IF playerId \notin Seated(w.room) THEN <<>>
    ELSE <<serializeRoom(rejoinRoom(w, playerId).room)>>

startGameEmits(w, sender) ==
    LET r == w.room
    IN IF ~w.registered \/ sender = Outsider \/ r.hostId # sender THEN <<>>
       ELSE IF Cardinality(Seated(r)) < 1 THEN <<>>
       ELSE <<serializeRoom(startGame(w, sender).room)>>

\* place-bet up to its own broadcast; dealRound's follow when it is called.
placeBetEmits(w, sender, amount) ==
    LET r == w.room
    IN IF ~w.registered \/ r.phase # "betting" THEN <<>>
       ELSE IF sender = Outsider THEN <<>>
       ELSE IF sender \notin Seated(r) \/ r.players[sender].hasBet THEN <<>>
       ELSE IF amount <= 0 \/ amount > r.players[sender].chips THEN <<>>
       ELSE <<serializeRoom(placeBet(w, sender, amount).room)>>

playerActionEmits(w, sender, action, hi0, cs) ==
    LET hi == hi0 + 1
    IN IF ~ActionAccepted(w, sender, hi) THEN <<>>
       ELSE LET r == w.room
                r1 == CASE action = "hit" -> handleHit(r, sender, hi, cs[1])
                        [] action = "stand" -> handleStand(r, sender, hi)
                        [] action = "double" -> handleDouble(r, sender, hi, cs[1])
                        [] action = "split" -> handleSplit(r, sender, hi, cs[1], cs[2])
                        [] OTHER -> r
                allHandsDone == \A i \in DOMAIN r1.players[sender].hands :
                                    r1.players[sender].hands[i].status # "playing"
            IN IF allHandsDone
               THEN <<serializeRoom(r1)>> \o advanceToNextPlayerEmits(
                        [w EXCEPT !.room = [r1 EXCEPT !.players[sender].isDone = TRUE]])
               ELSE <<serializeRoom(r1)>>

RECURSIVE RemoveDisconnectedEmits(_, _)
RemoveDisconnectedEmits(w, pids) ==
    IF pids = <<>> THEN <<>>
    ELSE LET pid == Head(pids)
         IN IF pid \in Seated(w.room) /\ w.room.players[pid].disconnected
            THEN removePlayerEmits(w, pid)
                    \o RemoveDisconnectedEmits(removePlayer(w, pid), Tail(pids))
            ELSE RemoveDisconnectedEmits(w, Tail(pids))

nextRoundEmits(w, sender) ==
    IF ~w.registered \/ sender = Outsider \/ w.room.hostId # sender THEN <<>>
    ELSE RemoveDisconnectedEmits(w, w.room.order)
            \o <<serializeRoom(nextRound(w, sender).room)>>

disconnectEmits(w, playerId) == <<serializeRoom(disconnect(w, playerId).room)>>

autoStandTimeoutEmits(w, playerId) ==
    LET r == w.room
    IN IF playerId \in Seated(r) /\ r.players[playerId].disconnected
          /\ r.activePlayerId = playerId
       THEN advanceToNextPlayerEmits(
                [w EXCEPT !.room.players[playerId].hands =
                              [i \in DOMAIN @ |->
                                  IF @[i].status = "playing"
                                  THEN [@[i] EXCEPT !.status = "standing"] ELSE @[i]],
                          !.room.players[playerId].isDone = TRUE])
               \o <<serializeRoom(autoStandTimeout(w, playerId).room)>>
       ELSE <<>>

graceTimeoutEmits(w, playerId) ==
    IF ~w.registered THEN <<>>
    ELSE IF playerId \notin Seated(w.room) \/ ~w.room.players[playerId].disconnected
    THEN <<>>
    ELSE removePlayerEmits(w, playerId)

\* The loop body of runDealerTurn without its emit.
dealerDrawSilent(w, card) == <<>>

dealerDrawEmits(w, card) == <<serializeRoom(dealerDraw(w, card).room)>>

dealerSettleEmits(w) == <<serializeRoom(dealerSettle(w).room)>>

\* ------------------------------------------------------------------ actions
\* One action per handler or callback.  A request that fails the handler's
\* validation returns early and is no step; the handler operators above are
\* total and give the unchanged state for it.
WithinBounds(w) == w.draw + w.settle <= MaxTasks

Step(w) == w # World /\ WithinBounds(w) /\ Apply(w)

\* The snapshot the clients hold after the step's broadcasts.
Sent(emits) ==
    lastBroadcast' = IF emits = <<>> THEN lastBroadcast ELSE emits[Len(emits)]

JoinRoom ==
    \E p \in table.ids : Step(joinRoom(World, p)) /\ Sent(joinRoomEmits(World, p))

RejoinRoom ==
    \E p \in table.ids : Step(rejoinRoom(World, p)) /\ Sent(rejoinRoomEmits(World, p))

StartGame ==
    \E s \in Senders(room) : Step(startGame(World, s)) /\ Sent(startGameEmits(World, s))

PlaceBet ==
    \E s \in Senders(room), amount \in table.bets :
        LET w1 == placeBet(World, s, amount)
            n == Cardinality({p \in Seated(room) : ~room.players[p].disconnected})
        IN /\ w1 # World
           /\ deals < table.rounds
           /\ IF allBet(w1.room)
              THEN \E cs \in [1..(2 * n + 2) -> table.ranks] :
                      /\ Step(dealRound(w1, cs))
                      /\ Sent(placeBetEmits(World, s, amount) \o dealRoundEmits(w1, cs))
              ELSE Step(w1) /\ Sent(placeBetEmits(World, s, amount))

DrawsFor(action) ==
    IF action = "split" THEN [1..2 -> table.ranks]
    ELSE IF action \in {"hit", "double"} THEN [1..1 -> table.ranks]
    ELSE {<<>>}

PlayerAction ==
    \E s \in Senders(room), hi0 \in 0..MaxHands :
        /\ ActionAccepted(World, s, hi0 + 1)
        /\ \E action \in Actions :
              /\ action = "hit"
                    => Len(room.players[s].hands[hi0 + 1].cards) < MaxHandCards
              /\ \E cs \in DrawsFor(action) :
                    /\ Step(playerAction(World, s, action, hi0, cs))
                    /\ Sent(playerActionEmits(World, s, action, hi0, cs))

NextRound ==
    \E s \in Senders(room) : Step(nextRound(World, s)) /\ Sent(nextRoundEmits(World, s))

Disconnect ==
    \E p \in Senders(room) \ {Outsider} :
        /\ table.drops
        /\ disconnect(World, p).ast[p] <= MaxAutoStand + table.redrops
        /\ Step(disconnect(World, p))
        /\ Sent(disconnectEmits(World, p))

AutoStandTimeout ==
    \E p \in Ids :
        /\ autoStand[p] > 0
        /\ Step(autoStandTimeout(World, p))
        /\ Sent(autoStandTimeoutEmits(World, p))

\* The 30 s timer of an identity comes due after every 5 s timer of that
\* identity, each of which was set no later than it.
GraceTimeout ==
    \E p \in disconnectTimers :
        /\ autoStand[p] = 0
        /\ Step(graceTimeout(World, p))
        /\ Sent(graceTimeoutEmits(World, p))

DealerDraw ==
    /\ drawTasks > 0
    /\ \E c \in table.ranks : Step(dealerDraw(World, c)) /\ Sent(dealerDrawEmits(World, c))

DealerSettle ==
    /\ settleTasks > 0
    /\ Step(dealerSettle(World))
    /\ Sent(dealerSettleEmits(World))

Next ==
    \/ JoinRoom
    \/ RejoinRoom
    \/ StartGame
    \/ PlaceBet
    \/ PlayerAction
    \/ NextRound
    \/ Disconnect
    \/ AutoStandTimeout
    \/ GraceTimeout
    \/ DealerDraw
    \/ DealerSettle

Spec == Init /\ [][Next]_vars

\* The tables whose connections drop, with the 5 s timers always coming due.
DropInit == Init /\ table.drops

DropSpec == DropInit /\ [][Next]_vars /\ WF_vars(AutoStandTimeout)

\* The shoe on its own.  The specifications above take the rank of every card
\* from the table and leave the shoe's length aside; here the handlers that
\* draw are followed by the number of cards each takes from room.deck:
\* dealRound two per connected player and two for the dealer, handleSplit two,
\* handleHit, handleDouble and the dealer's loop body one.
ShoeInit == Init /\ table = Solo

ShoeKeeps ==
    UNCHANGED <<room, registered, drawTasks, settleTasks, autoStand, disconnectTimers,
                deals, table, lastBroadcast, cardsHeld, valueHeld>>

ShoeDeal == \E n \in 1..MaxSeats : deck' = DrawCards(deck, 2 * n + 2) /\ ShoeKeeps

ShoeSplit == deck' = DrawCards(deck, 2) /\ ShoeKeeps

ShoeDraw == deck' = drawCard(deck) /\ ShoeKeeps

ShoeNext ==
    \/ ShoeDeal
    \/ ShoeSplit
    \/ ShoeDraw

ShoeSpec == ShoeInit /\ [][ShoeNext]_vars

\* The hand evaluation on its own: a hand of any ranks growing card by card,
\* evaluated after every card by the server's copy and by the shared one.
HandInit == Init /\ table = Solo

HandReceive ==
    /\ Len(cardsHeld) < MaxCards
    /\ \E c \in RANKS :
          /\ cardsHeld' = Append(cardsHeld, c)
          /\ valueHeld' = Evaluate(Append(cardsHeld, c))
    /\ UNCHANGED <<room, registered, drawTasks, settleTasks, autoStand, disconnectTimers,
                    deals, table, lastBroadcast, deck>>

HandSpec == HandInit /\ [][HandReceive]_vars

\* The dealer's turn on its own: a solo round dealt from the Felt table and
\* played to the call of runDealerTurn, then the timers of its sleeps, which
\* always come due.
FirstWorld ==
    [room |-> [hostId |-> Creator, phase |-> "lobby", order |-> <<Creator>>,
               players |-> [p \in {Creator} |-> NewPlayer],
               dealerHand |-> <<>>, activePlayerId |-> NoPlayer],
     registered |-> TRUE, draw |-> 0, settle |-> 0, ast |-> [p \in Ids |-> 0],
     dt |-> {}, deals |-> 0]

DealerInit ==
    /\ table = Felt
    /\ \E cs \in [1..4 -> Felt.ranks], action \in {"stand", "hit"}, c \in Felt.ranks :
          LET w1 == placeBet(startGame(FirstWorld, Creator), Creator, 100)
              w2 == playerAction(dealRound(w1, cs), Creator, action, 0, <<c>>)
          IN /\ cs[1] = "10" /\ cs[2] \in {"7", "A"}
             /\ w2.room.phase = "dealer_turn"
             /\ room = w2.room
             /\ registered = w2.registered
             /\ drawTasks = w2.draw
             /\ settleTasks = w2.settle
             /\ autoStand = w2.ast
             /\ disconnectTimers = w2.dt
             /\ deals = w2.deals
             /\ lastBroadcast = w2.room
             /\ deck = createDeck(NumDecks)
             /\ cardsHeld = <<>>
             /\ valueHeld = Evaluate(<<>>)

DealerNext ==
    \/ DealerDraw
    \/ DealerSettle

DealerSpec ==
    DealerInit /\ [][DealerNext]_vars /\ WF_vars(DealerDraw) /\ WF_vars(DealerSettle)

\* ------------------------------------------------------------------ claims
HandsOf(r, p) == r.players[p].hands

PosIn(r, p) == IndexOf(r.order, p)

\* C1: a player-action request changes the room only when the room is in
\* player_turns, the sender is the active player and the targeted hand exists
\* with status playing; every other request leaves everything as it was.
C1_Applicable(s, hi0) ==
    /\ room.phase = "player_turns"
    /\ s = room.activePlayerId
    /\ s \in Seated(room)
    /\ hi0 + 1 <= Len(HandsOf(room, s))
    /\ HandsOf(room, s)[hi0 + 1].status = "playing"

C1_RejectedActionChangesNothing ==
    LET w == World
    IN \A s \in Senders(room), hi0 \in 0..MaxHands :
          ~C1_Applicable(s, hi0)
             => \A action \in Actions : \A cs \in DrawsFor(action) :
                   playerAction(w, s, action, hi0, cs) = w

\* A connected player who is not the active one holds a playing hand while the
\* active player has already hit.
C1_Witness ==
    /\ room.phase = "player_turns"
    /\ \E p \in Seated(room) :
          /\ p # room.activePlayerId
          /\ ~room.players[p].disconnected
          /\ \E i \in DOMAIN HandsOf(room, p) : HandsOf(room, p)[i].status = "playing"
    /\ \E p \in Seated(room) :
          /\ p = room.activePlayerId
          /\ \E i \in DOMAIN HandsOf(room, p) : Len(HandsOf(room, p)[i].cards) = 3

\* C2: an accepted action that leaves the active player without a playing hand
\* marks them done and hands the turn to the first later player in roster
\* order who is neither done nor disconnected, or starts the dealer turn when
\* there is none; within a round the pointer never moves back in the roster.
C2_Later(p) ==
    {i \in (PosIn(room, p) + 1)..Len(room.order) :
        /\ ~room.players[room.order[i]].isDone
        /\ ~room.players[room.order[i]].disconnected}

C2_TurnPasses ==
    LET w == World
    IN \A s \in Senders(room), hi0 \in 0..MaxHands :
          C1_Applicable(s, hi0)
             => \A action \in Actions : \A cs \in DrawsFor(action) :
                   LET w2 == playerAction(w, s, action, hi0, cs)
                   IN (\A i \in DOMAIN HandsOf(w2.room, s) :
                           HandsOf(w2.room, s)[i].status # "playing")
                      => /\ w2.room.players[s].isDone
                         /\ IF C2_Later(s) # {}
                            THEN /\ w2.room.phase = "player_turns"
                                 /\ w2.room.activePlayerId
                                        = room.order[SetMin(C2_Later(s))]
                            ELSE /\ w2.room.phase = "dealer_turn"
                                 /\ w2.room.activePlayerId = NoPlayer

C2_NeverBack ==
    (/\ room.phase = "player_turns" /\ room'.phase = "player_turns"
     /\ deals' = deals
     /\ room.activePlayerId \in Seated(room)
     /\ room'.activePlayerId \in Seated(room))
    => PosIn(room, room'.activePlayerId) >= PosIn(room, room.activePlayerId)

C2_TurnOrder == [](C2_TurnPasses) /\ [][C2_NeverBack]_vars

\* The turn has passed over a disconnected player to a later one.
C2_Witness ==
    /\ room.phase = "player_turns"
    /\ Len(room.order) = 3
    /\ room.players[room.order[1]].isDone
    /\ room.players[room.order[2]].isDone
    /\ HandsOf(room, room.order[1])[1].status = "standing"
    /\ HandsOf(room, room.order[2])[1].status = "blackjack"
    /\ room.activePlayerId = room.order[3]

\* C3: a room in betting in which every connected player has bet is dealt at
\* once, whichever event completed the bets.
C3_DealtOnceAllBet ==
    ~(/\ registered
      /\ room.phase = "betting"
      /\ \E p \in Seated(room) : room.players[p].hasBet
      /\ \A p \in Seated(room) : room.players[p].hasBet \/ room.players[p].disconnected)

\* C4: start-game changes the room only in lobby.
C4_StartGameOnlyInLobby ==
    \A s \in Senders(room) :
        room.phase # "lobby" => startGame(World, s) = World

\* C5: next-round changes the room only in results.
C5_NextRoundOnlyInResults ==
    \A s \in Senders(room) :
        room.phase # "results" => nextRound(World, s) = World

\* C6: a start-game or next-round request from a connection whose identity is
\* not the host changes nothing, in every phase.
C6_HostOnly ==
    \A s \in Senders(room) :
        s # room.hostId => /\ startGame(World, s) = World
                           /\ nextRound(World, s) = World

\* A connected player who is not the host sits in a room showing results.
C6_Witness ==
    /\ room.phase = "results"
    /\ \E p \in Seated(room) :
          /\ p # room.hostId
          /\ ~room.players[p].disconnected
          /\ room.players[p].hands # <<>>

\* C7: once out of lobby, a room is never in lobby again.
C7_NeverBackToLobby == [][room.phase # "lobby" => room'.phase # "lobby"]_vars

\* A round has been played to its results and the next one opened.
C7_Witness == room.phase = "betting" /\ deals = 1

\* C8: settlement gives each hand without a result the outcome of the first
\* matching rule: dealer and hand blackjack, push and the wager back; dealer
\* blackjack, loss; hand blackjack, win paying wager + floor(1.5 * wager);
\* dealer over 21, win paying twice the wager; then the higher total wins
\* twice the wager, the lower loses, equal totals push.  Dealer blackjack is
\* exactly two dealer cards totalling 21.
C8_Total(cards) == calculateHandValue(cards).total

C8_Rule(hand, dealer) ==
    LET dealerBJ == Len(dealer) = 2 /\ C8_Total(dealer) = 21
        handBJ == hand.status = "blackjack"
        half == (3 * hand.bet - ((3 * hand.bet) % 2)) \div 2
    IN CASE dealerBJ /\ handBJ -> [result |-> "push", pay |-> hand.bet]
         [] dealerBJ /\ ~handBJ -> [result |-> "loss", pay |-> 0]
         [] ~dealerBJ /\ handBJ -> [result |-> "win", pay |-> hand.bet + half]
         [] ~dealerBJ /\ ~handBJ /\ C8_Total(dealer) > 21
              -> [result |-> "win", pay |-> 2 * hand.bet]
         [] ~dealerBJ /\ ~handBJ /\ C8_Total(dealer) <= 21
              /\ C8_Total(hand.cards) > C8_Total(dealer)
              -> [result |-> "win", pay |-> 2 * hand.bet]
         [] ~dealerBJ /\ ~handBJ /\ C8_Total(dealer) <= 21
              /\ C8_Total(hand.cards) < C8_Total(dealer)
              -> [result |-> "loss", pay |-> 0]
         [] OTHER -> [result |-> "push", pay |-> hand.bet]

RECURSIVE C8_Due(_, _)
C8_Due(hands, dealer) ==
    IF hands = <<>> THEN 0
    ELSE (IF Head(hands).result = NoResult THEN C8_Rule(Head(hands), dealer).pay ELSE 0)
         + C8_Due(Tail(hands), dealer)

\* What the round has won or lost a player: each hand's wager staked, and
\* the payout of every hand that did not bust.
RECURSIVE C8_Net(_, _)
C8_Net(hands, dealer) ==
    IF hands = <<>> THEN 0
    ELSE (IF Head(hands).status = "busted" THEN 0
          ELSE C8_Rule(Head(hands), dealer).pay)
         - Head(hands).bet + C8_Net(Tail(hands), dealer)

\* Settlement run on the room as it stands.
C8_RunNow ==
    LET r2 == resolveAllResults(room)
    IN \A p \in Seated(room) :
          /\ Len(HandsOf(r2, p)) = Len(HandsOf(room, p))
          /\ \A i \in DOMAIN HandsOf(room, p) :
                HandsOf(room, p)[i].result = NoResult
                   => HandsOf(r2, p)[i] =
                         [HandsOf(room, p)[i] EXCEPT
                             !.result = C8_Rule(HandsOf(room, p)[i], room.dealerHand).result]
          /\ r2.players[p].chips
                = room.players[p].chips + C8_Due(HandsOf(room, p), room.dealerHand)

\* The room as a settlement left it, the one inside the deal included.
C8_AsSettled ==
    room.phase = "results"
       => \A p \in Seated(room) :
             /\ \A i \in DOMAIN HandsOf(room, p) :
                   HandsOf(room, p)[i].status # "busted"
                      => HandsOf(room, p)[i].result
                            = C8_Rule(HandsOf(room, p)[i], room.dealerHand).result
             /\ (deals = 1 /\ HandsOf(room, p) # <<>>)
                   => room.players[p].chips
                         = STARTING_CHIPS + C8_Net(HandsOf(room, p), room.dealerHand)

C8_SettlementRules == C8_RunNow /\ C8_AsSettled

\* A blackjack has been paid 3:2 on an odd wager.
C8_Witness ==
    /\ room.phase = "results"
    /\ \E p \in Seated(room) :
          /\ Len(HandsOf(room, p)) = 1
          /\ HandsOf(room, p)[1].status = "blackjack"
          /\ HandsOf(room, p)[1].result = "win"
          /\ HandsOf(room, p)[1].bet = 601
          /\ room.players[p].chips = STARTING_CHIPS + 901

\* C9: settlement run again on hands that all carry a result changes no
\* result and no balance, and a hand's payout is credited at most once.
C9_AllSettled ==
    /\ \E p \in Seated(room) : HandsOf(room, p) # <<>>
    /\ \A p \in Seated(room) : \A i \in DOMAIN HandsOf(room, p) :
          HandsOf(room, p)[i].result # NoResult

C9_SecondRun == C9_AllSettled => resolveAllResults(room).players = room.players

C9_PayOf(hand) ==
    IF hand.result = "win"
    THEN (IF hand.status = "blackjack"
          THEN hand.bet + (3 * hand.bet - ((3 * hand.bet) % 2)) \div 2
          ELSE 2 * hand.bet)
    ELSE IF hand.result = "push" THEN hand.bet
    ELSE 0

C9_Kept(old, new, i) ==
    /\ i \in DOMAIN old
    /\ old[i].result # NoResult
    /\ old[i].cards = new[i].cards

RECURSIVE C9_NewlyPaid(_, _, _)
C9_NewlyPaid(old, new, i) ==
    IF i > Len(new) THEN 0
    ELSE (IF C9_Kept(old, new, i) THEN 0 ELSE C9_PayOf(new[i]))
         + C9_NewlyPaid(old, new, i + 1)

C9_CreditedOnce ==
    \A p \in Seated(room) \cap Seated(room') :
        /\ room'.players[p].chips - room.players[p].chips
              <= C9_NewlyPaid(HandsOf(room, p), HandsOf(room', p), 1)
        /\ \A i \in DOMAIN HandsOf(room', p) :
              C9_Kept(HandsOf(room, p), HandsOf(room', p), i)
                 => HandsOf(room', p)[i].result = HandsOf(room, p)[i].result

C9_SettlementIdempotent == [](C9_SecondRun) /\ [][C9_CreditedOnce]_vars

\* A settled round holds a winning hand, which a second payout would credit again.
C9_Witness ==
    /\ room.phase = "results"
    /\ C9_AllSettled
    /\ \E p \in Seated(room) : HandsOf(room, p)[1].result = "win"

\* C10: a hit that takes a hand over 21 sets busted and loss in that step,
\* before the dealer plays and without touching chips, and no settlement
\* afterwards changes the hand or credits anything for it.
C10_BustingHit ==
    LET w == World
    IN \A s \in Senders(room), hi0 \in 0..MaxHands :
          C1_Applicable(s, hi0)
             => \A c \in table.ranks :
                   LET w2 == playerAction(w, s, "hit", hi0, <<c>>)
                       cards == Append(HandsOf(room, s)[hi0 + 1].cards, c)
                   IN C8_Total(cards) > 21
                         => /\ HandsOf(w2.room, s)[hi0 + 1]
                                  = [HandsOf(room, s)[hi0 + 1] EXCEPT
                                        !.cards = cards, !.status = "busted",
                                        !.result = "loss"]
                            /\ w2.room.players[s].chips = room.players[s].chips
                            /\ w2.room.dealerHand = room.dealerHand

C10_BustStays ==
    LET r2 == resolveAllResults(room)
    IN \A p \in Seated(room) :
          /\ \A i \in DOMAIN HandsOf(room, p) :
                HandsOf(room, p)[i].status = "busted"
                   => /\ HandsOf(room, p)[i].result = "loss"
                      /\ HandsOf(r2, p)[i] = HandsOf(room, p)[i]
          /\ (\A i \in DOMAIN HandsOf(room, p) : HandsOf(room, p)[i].status = "busted")
                => r2.players[p].chips = room.players[p].chips

C10_BustIsFinal == C10_BustingHit /\ C10_BustStays

\* The dealer has busted after a player's hit did, and that player got nothing.
C10_Witness ==
    /\ room.phase = "results"
    /\ C8_Total(room.dealerHand) > 21
    /\ \E p \in Seated(room) :
          /\ Len(HandsOf(room, p)) = 1
          /\ HandsOf(room, p)[1].status = "busted"
          /\ HandsOf(room, p)[1].result = "loss"
          /\ room.players[p].chips = STARTING_CHIPS - HandsOf(room, p)[1].bet

\* C11: when the two cards dealt to the dealer total 21, the deal itself
\* settles the round: the room is in results, the deal makes nobody the active
\* player and leaves no dealer turn pending, no player-action is accepted, a
\* player dealt 21 pushes and holds the balance they had before betting, and
\* every other dealt hand is a loss with its wager gone.
C11_PreBet(p, s) ==
    IF p = s THEN room.players[p].chips
    ELSE room.players[p].chips + room.players[p].currentBet

C11_DealerBlackjackDeal(s, amount, cs) ==
    LET w1 == placeBet(World, s, amount)
        w2 == dealRound(w1, cs)
        r2 == w2.room
    IN /\ r2.phase = "results"
       /\ r2.activePlayerId = room.activePlayerId
       /\ w2.draw = drawTasks /\ w2.settle = settleTasks
       /\ Len(r2.dealerHand) = 2
       /\ \A q \in Senders(r2), hi \in 1..MaxHands : ~ActionAccepted(w2, q, hi)
       /\ \A p \in Seated(r2) :
             IF r2.players[p].disconnected
             THEN r2.players[p] = w1.room.players[p]
             ELSE /\ Len(HandsOf(r2, p)) = 1
                  /\ Len(HandsOf(r2, p)[1].cards) = 2
                  /\ HandsOf(r2, p)[1].bet = w1.room.players[p].currentBet
                  /\ IF C8_Total(HandsOf(r2, p)[1].cards) = 21
                     THEN /\ HandsOf(r2, p)[1].result = "push"
                          /\ r2.players[p].chips = C11_PreBet(p, s)
                     ELSE /\ HandsOf(r2, p)[1].result = "loss"
                          /\ r2.players[p].chips
                                = C11_PreBet(p, s) - HandsOf(r2, p)[1].bet

C11_DealerBlackjackSettlesAtDeal ==
    (registered /\ room.phase = "betting")
       => \A s \in Senders(room), amount \in table.bets :
             LET w1 == placeBet(World, s, amount)
                 n == Cardinality({p \in Seated(room) : ~room.players[p].disconnected})
             IN (w1 # World /\ allBet(w1.room))
                   => \A cs \in [1..(2 * n + 2) -> table.ranks] :
                         C8_Total(<<cs[2 * n + 1], cs[2 * n + 2]>>) = 21
                            => C11_DealerBlackjackDeal(s, amount, cs)

\* The deal gave the dealer a blackjack; one player pushed with a blackjack
\* and holds the starting balance, another lost the wager.
C11_Witness ==
    /\ room.phase = "results"
    /\ Len(room.dealerHand) = 2 /\ C8_Total(room.dealerHand) = 21
    /\ drawTasks = 0 /\ settleTasks = 0
    /\ room.activePlayerId = NoPlayer
    /\ \E p, q \in Seated(room) :
          /\ Len(HandsOf(room, p)) = 1 /\ Len(HandsOf(room, q)) = 1
          /\ HandsOf(room, p)[1].result = "push"
          /\ room.players[p].chips = STARTING_CHIPS
          /\ HandsOf(room, q)[1].result = "loss"
          /\ room.players[q].chips = STARTING_CHIPS - HandsOf(room, q)[1].bet

\* C12: the dealer draws exactly while the total is below 17 or is a soft 17:
\* the turn starts a draw, and each draw is followed by another, exactly
\* then; a settlement that follows the dealer's play of live hands finds the
\* dealer over 21, or at 17 or more and not on a soft 17; and whatever cards
\* the shoe gives, the drawing ends.
RECURSIVE C12_Hard(_)
C12_Hard(cards) ==
    IF cards = <<>> THEN 0
    ELSE (IF Head(cards) = "A" THEN 1 ELSE cardValue(Head(cards)))
         + C12_Hard(Tail(cards))

C12_HasAce(cards) == \E i \in DOMAIN cards : cards[i] = "A"

\* an Ace counts 11 when that keeps the hand at 21 or less
C12_IsSoft(cards) == C12_HasAce(cards) /\ C12_Hard(cards) + 10 <= 21

C12_Best(cards) == IF C12_IsSoft(cards) THEN C12_Hard(cards) + 10 ELSE C12_Hard(cards)

C12_Draws(cards) ==
    \/ C12_Best(cards) < 17
    \/ C12_Best(cards) = 17 /\ C12_IsSoft(cards)

C12_Live(r) ==
    \E p \in Seated(r) : \E i \in DOMAIN HandsOf(r, p) :
        HandsOf(r, p)[i].status \in {"playing", "standing"}

C12_LoopRule ==
    LET w == World
        w1 == runDealerTurn(w)
    IN /\ IF C12_Live(room) /\ C12_Draws(room.dealerHand)
          THEN w1.draw = w.draw + 1 /\ w1.settle = w.settle
          ELSE w1.draw = w.draw /\ w1.settle = w.settle + 1
       /\ w1.room.dealerHand = room.dealerHand
       /\ drawTasks > 0
             => /\ C12_Draws(room.dealerHand)
                /\ \A c \in table.ranks :
                      LET w2 == dealerDraw(w, c)
                      IN /\ w2.room.dealerHand = Append(room.dealerHand, c)
                         /\ IF C12_Draws(w2.room.dealerHand)
                            THEN w2.draw = w.draw /\ w2.settle = w.settle
                            ELSE w2.draw = w.draw - 1 /\ w2.settle = w.settle + 1
       /\ (settleTasks > 0 /\ room.phase = "dealer_turn" /\ C12_Live(room))
             => ~C12_Draws(room.dealerHand)

C12_Final ==
    (settleTasks' < settleTasks /\ room.phase = "dealer_turn" /\ C12_Live(room))
       => /\ room'.dealerHand = room.dealerHand
          /\ \/ C12_Best(room.dealerHand) > 21
             \/ C12_Best(room.dealerHand) >= 17
                   /\ ~(C12_Best(room.dealerHand) = 17 /\ C12_IsSoft(room.dealerHand))

C12_DealerHitsSoft17 ==
    /\ [](C12_LoopRule)
    /\ [][C12_Final]_vars
    /\ <>(drawTasks = 0 /\ settleTasks = 0 /\ room.phase = "results")

\* The dealer was dealt a soft 17, drew, and the round was settled.
C12_Witness ==
    /\ room.phase = "results"
    /\ Len(room.dealerHand) >= 3
    /\ room.dealerHand[1] = "A" /\ room.dealerHand[2] = "6"
    /\ \E p \in Seated(room) : HandsOf(room, p)[1].status = "standing"

\* C13: a double on a hand of exactly two cards whose wager the chips cover
\* takes that wager from the chips once more, doubles the hand's wager, adds
\* exactly one card, and leaves the hand busted with result loss or standing;
\* a double on any other hand changes nothing.
C13_Doubled(hand, c) ==
    LET cards == Append(hand.cards, c)
    IN [cards |-> cards, bet |-> 2 * hand.bet,
        status |-> IF C8_Total(cards) > 21 THEN "busted" ELSE "standing",
        result |-> IF C8_Total(cards) > 21 THEN "loss" ELSE NoResult]

C13_DoubleRule ==
    LET w == World
    IN \A s \in Senders(room), hi0 \in 0..MaxHands :
          C1_Applicable(s, hi0)
             => \A c \in table.ranks :
                   LET w2 == playerAction(w, s, "double", hi0, <<c>>)
                       hand == HandsOf(room, s)[hi0 + 1]
                       hands2 == HandsOf(w2.room, s)
                   IN IF Len(hand.cards) = 2 /\ room.players[s].chips >= hand.bet
                      THEN /\ w2.room.players[s].chips = room.players[s].chips - hand.bet
                           /\ Len(hands2) = Len(HandsOf(room, s))
                           /\ hands2[hi0 + 1] = C13_Doubled(hand, c)
                           /\ Len(hands2[hi0 + 1].cards) = 3
                           /\ hands2[hi0 + 1].status # "playing"
                           /\ \A i \in DOMAIN hands2 :
                                 i # hi0 + 1 => hands2[i] = HandsOf(room, s)[i]
                           /\ w2.room.dealerHand = room.dealerHand
                      ELSE w2 = w

\* A three-card hand that is not playing carries twice the wager placed.
C13_Witness ==
    \E p \in Seated(room) :
        /\ room.players[p].currentBet = 300
        /\ room.players[p].chips = STARTING_CHIPS - 600
        /\ Len(HandsOf(room, p)) = 1
        /\ HandsOf(room, p)[1].bet = 600
        /\ Len(HandsOf(room, p)[1].cards) = 3
        /\ HandsOf(room, p)[1].status = "standing"

\* C14: a split is carried out only on a hand of exactly two cards of the same
\* rank (the same value is not enough), while the player has fewer than 4
\* hands and chips covering the hand's wager; it takes one more wager and puts
\* in the hand's place two hands, each one original card plus one drawn card,
\* each carrying the original wager; any other split request changes nothing,
\* and no player ever has more than 4 hands.
C14_MaySplit(s, hand) ==
    /\ Len(hand.cards) = 2
    /\ hand.cards[1] = hand.cards[2]
    /\ Len(HandsOf(room, s)) < 4
    /\ room.players[s].chips >= hand.bet

C14_SplitRule ==
    LET w == World
    IN \A s \in Senders(room), hi0 \in 0..MaxHands :
          C1_Applicable(s, hi0)
             => \A cs \in [1..2 -> table.ranks] :
                   LET w2 == playerAction(w, s, "split", hi0, cs)
                       old == HandsOf(room, s)
                       new == HandsOf(w2.room, s)
                       hi == hi0 + 1
                   IN IF C14_MaySplit(s, old[hi])
                      THEN /\ w2.room.players[s].chips
                                 = room.players[s].chips - old[hi].bet
                           /\ Len(new) = Len(old) + 1
                           /\ \A i \in 1..(hi - 1) : new[i] = old[i]
                           /\ \A i \in (hi + 1)..Len(old) : new[i + 1] = old[i]
                           /\ new[hi].cards = <<old[hi].cards[1], cs[1]>>
                           /\ new[hi + 1].cards = <<old[hi].cards[2], cs[2]>>
                           /\ new[hi].bet = old[hi].bet
                           /\ new[hi + 1].bet = old[hi].bet
                           /\ new[hi].result = NoResult
                           /\ new[hi + 1].result = NoResult
                           /\ w2.room.dealerHand = room.dealerHand
                      ELSE w2 = w

C14_AtMostFourHands == \A p \in Seated(room) : Len(HandsOf(room, p)) <= 4

C14_SplitOnlyStrictPairs == C14_SplitRule /\ C14_AtMostFourHands

\* A player has split three times: on the turn with four hands, the second of
\* them a splittable pair still playing, and chips to cover a further wager.
C14_Witness ==
    /\ room.phase = "player_turns"
    /\ \E p \in Seated(room) :
          /\ room.activePlayerId = p
          /\ Len(HandsOf(room, p)) = 4
          /\ HandsOf(room, p)[2].status = "playing"
          /\ HandsOf(room, p)[2].cards = <<"K", "K">>
          /\ room.players[p].chips = STARTING_CHIPS - 4 * HandsOf(room, p)[2].bet
          /\ room.players[p].chips >= HandsOf(room, p)[2].bet

\* C15: the two hands a split of Aces leaves have exactly 2 cards each and are
\* standing; no request of any kind is carried out on either of them, and
\* they keep their 2 cards until the round's hands are cleared.
\* Only a split of Aces gives a player two hands that both begin with an Ace.
C15_HoldsSplitAces(r, p) ==
    /\ p \in Seated(r)
    /\ Len(HandsOf(r, p)) = 2
    /\ HandsOf(r, p)[1].cards[1] = "A"
    /\ HandsOf(r, p)[2].cards[1] = "A"

C15_SplitOfAces ==
    LET w == World
    IN \A s \in Senders(room), hi0 \in 0..MaxHands :
          (/\ C1_Applicable(s, hi0)
           /\ HandsOf(room, s)[hi0 + 1].cards = <<"A", "A">>
           /\ room.players[s].chips >= HandsOf(room, s)[hi0 + 1].bet)
             => \A cs \in [1..2 -> table.ranks] :
                   LET new == HandsOf(playerAction(w, s, "split", hi0, cs).room, s)
                   IN /\ Len(new) = 2
                      /\ \A i \in 1..2 : /\ Len(new[i].cards) = 2
                                          /\ new[i].cards[1] = "A"
                                          /\ new[i].status = "standing"

C15_NothingAccepted ==
    LET w == World
    IN \A p \in Seated(room) :
          C15_HoldsSplitAces(room, p)
             => /\ \A i \in 1..2 : /\ Len(HandsOf(room, p)[i].cards) = 2
                                    /\ HandsOf(room, p)[i].status = "standing"
                /\ \A s \in Senders(room), hi0 \in 0..1, action \in Actions :
                      s = p => \A cs \in DrawsFor(action) :
                                  playerAction(w, s, action, hi0, cs) = w

C15_CardsStay ==
    \A p \in Seated(room) :
        C15_HoldsSplitAces(room, p)
           => \/ p \notin Seated(room')
              \/ HandsOf(room', p) = <<>>
              \/ /\ Len(HandsOf(room', p)) = 2
                 /\ \A i \in 1..2 :
                       /\ HandsOf(room', p)[i].cards = HandsOf(room, p)[i].cards
                       /\ HandsOf(room', p)[i].status = "standing"
                       /\ HandsOf(room', p)[i].bet = HandsOf(room, p)[i].bet

C15_SplitAcesStand ==
    [](C15_SplitOfAces /\ C15_NothingAccepted) /\ [][C15_CardsStay]_vars

\* A round in which Aces were split has been settled.
C15_Witness ==
    /\ room.phase = "results"
    /\ \E p \in Seated(room) :
          /\ C15_HoldsSplitAces(room, p)
          /\ HandsOf(room, p)[1].result # NoResult
          /\ HandsOf(room, p)[2].result # NoResult
          /\ ~room.players[p].disconnected

\* C16: a player enters the room with 1000 chips, and no bet, double, split,
\* settlement, disconnect or reconnect ever leaves a balance below zero.
C16_Amounts(p) ==
    table.bets \cup {-1, 1, room.players[p].chips - 1, room.players[p].chips,
                     room.players[p].chips + 1}

C16_ChipsAtLeastZero ==
    /\ \A p \in Seated(room) : room.players[p].chips >= 0
    /\ \A p \in Senders(room) \ {Outsider} : \A amount \in C16_Amounts(p) :
          placeBet(World, p, amount).room.players[p].chips >= 0

C16_EntersWithStartingChips ==
    \A p \in Seated(room') \ Seated(room) : room'.players[p].chips = 1000

C16_ChipsNeverNegative == [](C16_ChipsAtLeastZero) /\ [][C16_EntersWithStartingChips]_vars

\* A player has staked the whole balance and holds a pair it cannot pay to split.
C16_Witness ==
    /\ room.phase = "player_turns"
    /\ \E p \in Seated(room) :
          /\ room.players[p].chips = 0
          /\ room.players[p].currentBet = 1000
          /\ HandsOf(room, p)[1].status = "playing"
          /\ HandsOf(room, p)[1].cards = <<"K", "K">>

\* C17: every hand that is not busted totals 21 or less, and every hand that
\* totals more than 21 is busted with result loss and shows its true total,
\* the sum of its cards with every Ace counted 1.
C17_HandTotals ==
    \A p \in Seated(room) : \A i \in DOMAIN HandsOf(room, p) :
        LET hand == HandsOf(room, p)[i]
        IN /\ hand.status # "busted" => C12_Best(hand.cards) <= 21
           /\ C12_Best(hand.cards) > 21
                 => /\ hand.status = "busted"
                    /\ hand.result = "loss"
                    /\ calculateHandValue(hand.cards).total = C12_Hard(hand.cards)
           /\ hand.status = "busted" => C12_Best(hand.cards) > 21

\* A doubled hand went over 21 and is kept busted at its total of 30.
C17_Witness ==
    \E p \in Seated(room) : \E i \in DOMAIN HandsOf(room, p) :
        /\ HandsOf(room, p)[i].status = "busted"
        /\ HandsOf(room, p)[i].bet = 2 * room.players[p].currentBet
        /\ Len(HandsOf(room, p)[i].cards) = 3
        /\ calculateHandValue(HandsOf(room, p)[i].cards).total = 30

\* C18: a bet is taken only in betting, from a seated player who has not bet
\* in this round, for an amount above 0 and within that player's chips; it
\* takes exactly the amount from the chips, records it as the current bet and
\* sets hasBet; any other place-bet changes nothing, so a bet once placed
\* stands until the round is reset.
C18_BetRule ==
    LET w == World
    IN \A s \in Senders(room) :
          \A amount \in (IF s = Outsider THEN table.bets ELSE C16_Amounts(s)) :
             LET w2 == placeBet(w, s, amount)
             IN IF /\ room.phase = "betting"
                   /\ s \in Seated(room)
                   /\ ~room.players[s].hasBet
                   /\ 0 < amount /\ amount <= room.players[s].chips
                THEN w2 = [w EXCEPT !.room.players[s] =
                              [room.players[s] EXCEPT
                                  !.chips = room.players[s].chips - amount,
                                  !.currentBet = amount,
                                  !.hasBet = TRUE]]
                ELSE w2 = w

C18_BetStands ==
    \A p \in Seated(room) \cap Seated(room') :
        /\ (~room.players[p].hasBet /\ room'.players[p].hasBet)
              => /\ room.phase = "betting"
                 /\ room'.players[p].currentBet > 0
                 /\ room'.players[p].currentBet <= room.players[p].chips
                 /\ room'.phase # "results"
                       => room'.players[p].chips
                             = room.players[p].chips - room'.players[p].currentBet
        /\ (room.players[p].hasBet /\ room'.players[p].hasBet)
              => room'.players[p].currentBet = room.players[p].currentBet
        /\ (room.players[p].hasBet /\ ~room'.players[p].hasBet)
              => room'.players[p].currentBet = 0 /\ room'.phase = "betting"

C18_PlaceBetValidated == [](C18_BetRule) /\ [][C18_BetStands]_vars

\* One player has bet and waits in betting for another who has not.
C18_Witness ==
    /\ room.phase = "betting"
    /\ \E p, q \in Seated(room) :
          /\ room.players[p].hasBet
          /\ room.players[p].currentBet = 600
          /\ room.players[p].chips = STARTING_CHIPS - 600
          /\ ~room.players[p].disconnected
          /\ ~room.players[q].hasBet
          /\ ~room.players[q].disconnected

\* C19: join-room is refused with an error message, the room left as it was,
\* when the room is gone, is not in lobby, seats 7 already, or seats that
\* identity already; otherwise the identity is appended to the roster with
\* 1000 chips.  So no room seats more than 7, and no roster grows once the
\* room has left lobby.
C19_Errors ==
    {"Room not found", "Game already in progress", "Room is full (max 7)",
     "Already in this room"}

C19_JoinRule ==
    LET w == World
    IN \A p \in table.ids :
          LET w2 == joinRoom(w, p)
              gone == ~registered
              started == room.phase # "lobby"
              full == Cardinality(Seated(room)) >= 7
              seated == p \in Seated(room)
          IN IF gone \/ started \/ full \/ seated
             THEN /\ w2 = w
                  /\ joinReply(w, p) \in C19_Errors
                  /\ (gone /\ ~started /\ ~full /\ ~seated)
                        => joinReply(w, p) = "Room not found"
                  /\ (~gone /\ started /\ ~full /\ ~seated)
                        => joinReply(w, p) = "Game already in progress"
                  /\ (~gone /\ ~started /\ full /\ ~seated)
                        => joinReply(w, p) = "Room is full (max 7)"
                  /\ (~gone /\ ~started /\ ~full /\ seated)
                        => joinReply(w, p) = "Already in this room"
             ELSE /\ joinReply(w, p) = "room-joined"
                  /\ w2.room.order = Append(room.order, p)
                  /\ Seated(w2.room) = Seated(room) \cup {p}
                  /\ w2.room.players[p] =
                        [chips |-> 1000, hands |-> <<>>, currentBet |-> 0,
                         hasBet |-> FALSE, isDone |-> FALSE, disconnected |-> FALSE]
                  /\ \A q \in Seated(room) : w2.room.players[q] = room.players[q]
                  /\ w2 = [w EXCEPT !.room.order = w2.room.order,
                                    !.room.players = w2.room.players]

C19_AtMostSeven == Cardinality(Seated(room)) <= 7 /\ Len(room.order) <= 7

C19_NoLateJoin == room.phase # "lobby" => Seated(room') \subseteq Seated(room)

C19_JoinValidated == [](C19_JoinRule /\ C19_AtMostSeven) /\ [][C19_NoLateJoin]_vars

\* The room seats 7 in lobby while an eighth identity is still outside.
C19_Witness ==
    /\ registered
    /\ room.phase = "lobby"
    /\ Cardinality(Seated(room)) = 7
    /\ table.ids \ Seated(room) # {}

\* C20: rejoin-room restores the seat exactly when the room exists and seats
\* the identity: the seat is marked connected again and its grace timer is
\* cancelled, chips and hands as they were.  When the room is gone the answer
\* is that the room no longer exists, when the room does not seat the
\* identity that it is no longer a member, and neither changes anything.
C20_RejoinRule ==
    LET w == World
    IN \A p \in table.ids :
          LET w2 == rejoinRoom(w, p)
          IN IF registered /\ p \in Seated(room)
             THEN /\ rejoinReply(w, p) = "rejoin-success"
                  /\ ~w2.room.players[p].disconnected
                  /\ p \notin w2.dt
                  /\ w2.room.players[p] = [room.players[p] EXCEPT !.disconnected = FALSE]
                  /\ w2 = [w EXCEPT !.room.players[p].disconnected = FALSE,
                                    !.dt = disconnectTimers \ {p}]
             ELSE /\ w2 = w
                  /\ rejoinReply(w, p)
                        = IF ~registered THEN "Room no longer exists"
                          ELSE "You are no longer in this room"

\* A player who dropped on their own turn is back in the seat, connected, the
\* grace timer cancelled, while another identity is outside the room.
C20_Witness ==
    /\ registered
    /\ \E p \in Seated(room) :
          /\ ~room.players[p].disconnected
          /\ p \notin disconnectTimers
          /\ autoStand[p] > 0
          /\ HandsOf(room, p) # <<>>
    /\ \E q \in table.ids : q \notin Seated(room)

\* C21: a disconnect changes nothing in the room but the player's
\* disconnected flag, and a rejoin of the same identity before any timer has
\* fired gives back the room as it was: roster order, chips, hands, bet,
\* hasBet and done flags, phase, host, dealer hand and active player.
C21_DropAndReturn ==
    LET w == World
    IN \A p \in Senders(room) \ {Outsider} :
          LET w1 == disconnect(w, p)
              w2 == rejoinRoom(w1, p)
          IN /\ w1.room = [room EXCEPT !.players[p].disconnected = TRUE]
             /\ w1.registered
             /\ w2.room = room
             /\ w2.registered
             /\ w2.dt = disconnectTimers \ {p}
             /\ w2.draw = drawTasks /\ w2.settle = settleTasks /\ w2.deals = deals

\* A player who dropped while holding a playing hand on their own turn is
\* back on that turn with the hand still playing.
C21_Witness ==
    /\ room.phase = "player_turns"
    /\ \E p \in Seated(room) :
          /\ room.activePlayerId = p
          /\ ~room.players[p].disconnected
          /\ autoStand[p] > 0
          /\ ~room.players[p].isDone
          /\ room.players[p].hasBet
          /\ HandsOf(room, p)[1].status = "playing"

\* C22: a rejoin cancels both timers the preceding disconnect started.  The
\* grace timer of a connected player is gone; and when a player who dropped
\* again has two auto-stand timers pending, the one that comes due first is
\* the one started before the rejoin, and it does nothing to the room.
C22_RejoinClearsTimers ==
    \A p \in Seated(room) :
        /\ ~room.players[p].disconnected => p \notin disconnectTimers
        /\ (room.players[p].disconnected /\ autoStand[p] >= 2)
              => autoStandTimeout(World, p).room = room

\* C23: when the active player has dropped in player_turns and stays away,
\* the auto-stand timer stands every hand of theirs that is still playing,
\* marks them done and passes the turn to the next eligible player, or starts
\* the dealer turn, with no request from any client; such a timer is always
\* pending, so the room never waits for a disconnected active player for good.
C23_Stalled(p) ==
    /\ registered
    /\ room.phase = "player_turns"
    /\ p \in Seated(room)
    /\ room.activePlayerId = p
    /\ room.players[p].disconnected

C23_Waiting == \E p \in Seated(room) : C23_Stalled(p)

C23_TimerActs ==
    LET w == World
    IN \A p \in Seated(room) :
          C23_Stalled(p)
             => /\ autoStand[p] > 0
                /\ LET w2 == autoStandTimeout(w, p)
                       old == HandsOf(room, p)
                       new == HandsOf(w2.room, p)
                   IN /\ Len(new) = Len(old)
                      /\ \A i \in DOMAIN old :
                            new[i] = IF old[i].status = "playing"
                                     THEN [old[i] EXCEPT !.status = "standing"]
                                     ELSE old[i]
                      /\ w2.room.players[p].isDone
                      /\ w2.room.players[p].chips = room.players[p].chips
                      /\ w2.ast[p] = autoStand[p] - 1
                      /\ \A q \in Seated(room) \ {p} :
                            w2.room.players[q] = room.players[q]
                      /\ IF C2_Later(p) # {}
                         THEN /\ w2.room.phase = "player_turns"
                              /\ w2.room.activePlayerId = room.order[SetMin(C2_Later(p))]
                              /\ w2.draw + w2.settle = drawTasks + settleTasks
                         ELSE /\ w2.room.phase = "dealer_turn"
                              /\ w2.room.activePlayerId = NoPlayer
                              /\ w2.draw + w2.settle = drawTasks + settleTasks + 1

C23_AutoStandAdvances == [](C23_TimerActs) /\ (C23_Waiting ~> ~C23_Waiting)

\* A player who dropped on their turn has been stood by the timer and is
\* still away, and the turn is with the next player.
C23_Witness ==
    /\ room.phase = "player_turns"
    /\ \E p, q \in Seated(room) :
          /\ room.players[p].disconnected
          /\ room.players[p].isDone
          /\ autoStand[p] = 0
          /\ HandsOf(room, p)[1].status = "standing"
          /\ Len(HandsOf(room, p)[1].cards) = 2
          /\ room.activePlayerId = q
          /\ q # p
          /\ ~room.players[q].isDone

\* C24: a grace timer that fires while its player is still disconnected takes
\* the player out of the roster; when that player was the last one seated the
\* room leaves the registry for good, and every rejoin-room for it is then
\* answered that the room no longer exists.  A grace timer is pending for
\* every disconnected player.
C24_GraceRule ==
    LET w == World
    IN /\ \A p \in Seated(room) : room.players[p].disconnected => p \in disconnectTimers
       /\ \A p \in disconnectTimers :
             LET w2 == graceTimeout(w, p)
             IN /\ p \notin w2.dt
                /\ IF registered /\ p \in Seated(room) /\ room.players[p].disconnected
                   THEN /\ p \notin Seated(w2.room)
                        /\ \A i \in DOMAIN w2.room.order : w2.room.order[i] # p
                        /\ Seated(w2.room) = Seated(room) \ {p}
                        /\ \A q \in Seated(w2.room) :
                              w2.room.players[q] = room.players[q]
                                 \/ (room.activePlayerId = p /\ room.phase = "player_turns")
                        /\ IF Seated(room) = {p}
                           THEN /\ ~w2.registered
                                /\ \A q \in table.ids :
                                      /\ rejoinReply(w2, q) = "Room no longer exists"
                                      /\ rejoinRoom(w2, q) = w2
                           ELSE w2.registered
                   ELSE w2 = [w EXCEPT !.dt = disconnectTimers \ {p}]

C24_GoneForGood == ~registered => ~registered'

C25_HostSeated == registered => room.hostId \in Seated(room)

C25_Transfer ==
    (registered /\ registered' /\ room'.hostId # room.hostId)
        => /\ room.hostId \notin Seated(room')
           /\ room'.hostId \in Seated(room) \cap Seated(room')
           /\ (\E q \in Seated(room') : ~room'.players[q].disconnected)
                 => ~room'.players[room'.hostId].disconnected

C25_GraceTransfer ==
    LET w == World
    IN \A p \in disconnectTimers :
          (registered /\ p \in Seated(room) /\ room.players[p].disconnected
             /\ Seated(room) # {p})
          => LET r2 == graceTimeout(w, p).room
                 others == Seated(room) \ {p}
             IN /\ r2.hostId \in others
                /\ room.hostId # p => r2.hostId = room.hostId
                /\ (room.hostId = p /\ \E q \in others : ~room.players[q].disconnected)
                      => ~room.players[r2.hostId].disconnected

C25_HostReassigned ==
    [](C25_HostSeated) /\ [](C25_GraceTransfer) /\ [][C25_Transfer]_vars

\* The creator has been removed and the host role went past a disconnected
\* earlier seat to a connected player.
C25_Witness ==
    /\ registered
    /\ Creator \notin Seated(room)
    /\ room.hostId # Creator
    /\ ~room.players[room.hostId].disconnected
    /\ \E i \in DOMAIN room.order :
          /\ i < PosIn(room, room.hostId)
          /\ room.players[room.order[i]].disconnected

\* C26: a next-round request from the host removes every disconnected player,
\* then clears the hands, bet, hasBet and done flags of those who remain (their
\* chips and seating order untouched), empties the dealer hand, clears the
\* active-player pointer and puts the room in betting; a request from anyone
\* else changes nothing.
C26_Stay(r) == {p \in Seated(r) : ~r.players[p].disconnected}

C26_NextRoundPurges ==
    LET w == World
    IN \A s \in Senders(room) :
          LET w2 == nextRound(w, s)
              r2 == w2.room
          IN IF registered /\ s = room.hostId
             THEN /\ w2.registered
                  /\ r2.phase = "betting"
                  /\ r2.dealerHand = <<>>
                  /\ r2.activePlayerId = NoPlayer
                  /\ r2.hostId = room.hostId
                  /\ Seated(r2) = C26_Stay(room)
                  /\ r2.order = SelectSeq(room.order, LAMBDA p : p \in C26_Stay(room))
                  /\ \A p \in Seated(r2) :
                        r2.players[p] =
                           [room.players[p] EXCEPT !.hands = <<>>, !.currentBet = 0,
                                                   !.hasBet = FALSE, !.isDone = FALSE]
             ELSE w2 = w

\* A next-round after a dealt round has removed a disconnected player, whose
\* grace timer is still pending, and reset the players who remain.
C26_Witness ==
    /\ registered
    /\ room.phase = "betting"
    /\ deals >= 1
    /\ room.dealerHand = <<>>
    /\ \E p \in disconnectTimers : p \notin Seated(room)
    /\ \A p \in Seated(room) : room.players[p].hands = <<>> /\ ~room.players[p].hasBet

\* C27: a place-bet or player-action request that is rejected - wrong phase,
\* wrong actor, hand not playing, invalid amount, or a double or split failing
\* its card-count, pair, hand-count or chip precondition - leaves the room as
\* it was and emits no room-update.
C27_DoubleFails(r, s, hi) ==
    \/ Len(r.players[s].hands[hi].cards) # 2
    \/ r.players[s].chips < r.players[s].hands[hi].bet

C27_SplitFails(r, s, hi) ==
    \/ ~isStrictPair(r.players[s].hands[hi].cards)
    \/ Len(r.players[s].hands) >= MaxHands
    \/ r.players[s].chips < r.players[s].hands[hi].bet

C27_ActionRejected(w, s, action, hi) ==
    \/ ~ActionAccepted(w, s, hi)
    \/ action = "double" /\ C27_DoubleFails(w.room, s, hi)
    \/ action = "split" /\ C27_SplitFails(w.room, s, hi)

C27_BetRejected(w, s, amount) ==
    \/ ~w.registered
    \/ w.room.phase # "betting"
    \/ s \notin Seated(w.room)
    \/ w.room.players[s].hasBet
    \/ amount <= 0
    \/ amount > w.room.players[s].chips

C27_Requests == {"hit", "stand", "double", "split"}

C27_RejectedNoEffect ==
    LET w == World
    IN /\ \A s \in Senders(room), hi0 \in 0..MaxHands, action \in C27_Requests :
             C27_ActionRejected(w, s, action, hi0 + 1)
                => \A cs \in DrawsFor(action) : playerAction(w, s, action, hi0, cs) = w
       /\ \A s \in Senders(room), amount \in table.bets :
             C27_BetRejected(w, s, amount) => placeBet(w, s, amount) = w

C27_RejectedIsSilent ==
    LET w == World
    IN /\ C27_RejectedNoEffect
       /\ \A s \in Senders(room), hi0 \in 0..MaxHands, action \in C27_Requests :
             C27_ActionRejected(w, s, action, hi0 + 1)
                => \A cs \in DrawsFor(action) :
                      playerActionEmits(w, s, action, hi0, cs) = <<>>
       /\ \A s \in Senders(room), amount \in table.bets :
             C27_BetRejected(w, s, amount) => placeBetEmits(w, s, amount) = <<>>

\* C28: after every handler or timer callback that leaves the room registered
\* with someone seated, the last room-update snapshot is the room as it now
\* is; a phase change of the room is a change between the same two phases in
\* the clients' last snapshots; and the snapshots one handler emits never show
\* a phase again after showing a later one.
C28_Current == (registered /\ Seated(room) # {}) => lastBroadcast = serializeRoom(room)

C28_PhaseSeen ==
    (registered /\ registered' /\ room'.phase # room.phase)
        => lastBroadcast.phase = room.phase /\ lastBroadcast'.phase = room'.phase

C28_Phases(emits) == [i \in DOMAIN emits |-> emits[i].phase]

C28_NoReturn(ph) ==
    \A i, j, k \in DOMAIN ph : (i < j /\ j < k /\ ph[i] # ph[j]) => ph[k] # ph[i]

C28_Trail(emits) == C28_NoReturn(<<room.phase>> \o C28_Phases(emits))

C28_InOrder ==
    LET w == World
    IN /\ \A s \in Senders(room) :
             /\ C28_Trail(nextRoundEmits(w, s))
             /\ C28_Trail(startGameEmits(w, s))
             /\ \A amount \in table.bets :
                   LET w1 == placeBet(w, s, amount)
                       n == Cardinality({p \in Seated(room) : ~room.players[p].disconnected})
                   IN (w1 # w /\ allBet(w1.room))
                        => \A cs \in [1..(2 * n + 2) -> table.ranks] :
                              C28_Trail(placeBetEmits(w, s, amount) \o dealRoundEmits(w1, cs))
             /\ \A hi0 \in 0..MaxHands :
                   ActionAccepted(w, s, hi0 + 1)
                     => C28_Trail(playerActionEmits(w, s, "stand", hi0, <<>>))
       /\ \A p \in Seated(room) :
             /\ C28_Trail(autoStandTimeoutEmits(w, p))
             /\ C28_Trail(graceTimeoutEmits(w, p))

C28_BroadcastFollows ==
    [](C28_Current) /\ [](C28_InOrder) /\ [][C28_PhaseSeen]_vars

\* The last hand was stood: the handler broadcast the stand, then marked the
\* player done and entered the dealer turn, and the clients hold that state.
C28_Witness ==
    /\ registered
    /\ room.phase = "dealer_turn"
    /\ drawTasks + settleTasks > 0
    /\ \A p \in Seated(room) : room.players[p].isDone
    /\ \E p \in Seated(room) : \E i \in DOMAIN room.players[p].hands :
          room.players[p].hands[i].status = "standing"
    /\ lastBroadcast = serializeRoom(room)

\* C29: while the room is in dealer_turn with a continuation of runDealerTurn
\* pending, no start-game, next-round, place-bet or player-action changes the
\* room's phase, hands, bets or dealer hand.
C29_InFlight == registered /\ room.phase = "dealer_turn" /\ drawTasks + settleTasks > 0

C29_Same(r) ==
    /\ r.phase = room.phase
    /\ r.dealerHand = room.dealerHand
    /\ Seated(r) = Seated(room)
    /\ \A p \in Seated(room) :
          /\ r.players[p].hands = room.players[p].hands
          /\ r.players[p].currentBet = room.players[p].currentBet
          /\ r.players[p].hasBet = room.players[p].hasBet

C29_DealerTurnExclusive ==
    LET w == World
    IN C29_InFlight =>
          \A s \in Senders(room) :
             /\ C29_Same(startGame(w, s).room)
             /\ C29_Same(nextRound(w, s).room)
             /\ \A amount \in table.bets : C29_Same(placeBet(w, s, amount).room)
             /\ \A hi0 \in 0..MaxHands, action \in Actions :
                   \A cs \in DrawsFor(action) :
                      C29_Same(playerAction(w, s, action, hi0, cs).room)

\* C30: a fired auto-stand timer acts only when the room still exists, its
\* player is still seated and disconnected, the phase is player_turns and the
\* player is the active one; otherwise it leaves every hand status, done
\* flag, the phase and the active-player pointer as they were.
C30_StillValid(p) ==
    /\ registered
    /\ p \in Seated(room)
    /\ room.players[p].disconnected
    /\ room.phase = "player_turns"
    /\ room.activePlayerId = p

C30_StaleTimerGuard ==
    LET w == World
    IN \A p \in Ids :
          (autoStand[p] > 0 /\ ~C30_StillValid(p))
             => LET r2 == autoStandTimeout(w, p).room
                IN /\ r2.phase = room.phase
                   /\ r2.activePlayerId = room.activePlayerId
                   /\ Seated(r2) = Seated(room)
                   /\ \A q \in Seated(room) :
                         /\ r2.players[q].isDone = room.players[q].isDone
                         /\ r2.players[q].hands = room.players[q].hands

\* C31: when the room enters dealer_turn with every player hand busted or
\* blackjack, the sequence it starts draws no card: it goes straight to its
\* settlement, which leaves the dealer hand as it was dealt (two cards) and
\* settles against it.
C31_NoLive(r) ==
    \A p \in Seated(r) : \A i \in DOMAIN r.players[p].hands :
        r.players[p].hands[i].status \in {"busted", "blackjack"}

C31_Entering ==
    /\ registered'
    /\ room.phase # "dealer_turn"
    /\ room'.phase = "dealer_turn"
    /\ C31_NoLive(room')

C31_Skip ==
    C31_Entering
       => /\ drawTasks' = drawTasks
          /\ settleTasks' = settleTasks + 1
          /\ (deals' > deals \/ room.phase = "player_turns")
                => Len(room'.dealerHand) = 2

C31_Waiting ==
    /\ registered
    /\ room.phase = "dealer_turn"
    /\ C31_NoLive(room)
    /\ drawTasks = 0
    /\ settleTasks > 0

C31_Settle ==
    (C31_Waiting /\ room'.phase = "results")
       => /\ room'.dealerHand = room.dealerHand
          /\ room' = resolveAllResults(room)

C31_DealerSkipsDraw == [][C31_Skip /\ C31_Settle]_vars

\* The only hand was busted under a dealer hand that would otherwise draw,
\* and the settlement is pending on the two dealt cards.
C31_Witness ==
    /\ C31_Waiting
    /\ Len(room.dealerHand) = 2
    /\ DealerMustDraw(room.dealerHand)
    /\ \E p \in Seated(room) : \E i \in DOMAIN room.players[p].hands :
          room.players[p].hands[i].status = "busted"

\* C32: the deal that follows the last bet gives every connected player one
\* hand of the two cards drawn for them, carrying their bet, and the dealer
\* two cards; a player whose cards total 21 is flagged blackjack and done;
\* when the dealer has no 21 the turn goes to the first dealt player in
\* seating order who is not done, or the room enters dealer_turn when there
\* is none.
C32_Dealt(r) == SelectSeq(r.order, LAMBDA p : ~r.players[p].disconnected)

C32_Total(c1, c2) ==
    LET v(c) == IF c = "A" THEN 11 ELSE IF c \in {"K", "Q", "J", "10"} THEN 10 ELSE 0
    IN v(c1) + v(c2)

C32_DealOf(w1, cs) ==
    LET r1 == w1.room
        w2 == dealRound(w1, cs)
        r2 == w2.room
        ids == C32_Dealt(r1)
        n == Len(ids)
        open == {k \in 1..n : ~r2.players[ids[k]].isDone}
    IN /\ \A k \in 1..n :
             LET pl == r2.players[ids[k]]
                 bj == C32_Total(cs[2 * k - 1], cs[2 * k]) = 21
             IN /\ Len(pl.hands) = 1
                /\ pl.hands[1].cards = <<cs[2 * k - 1], cs[2 * k]>>
                /\ pl.hands[1].bet = r1.players[ids[k]].currentBet
                /\ pl.hands[1].bet > 0
                /\ bj => pl.hands[1].status = "blackjack" /\ pl.isDone
                /\ ~bj => pl.hands[1].status = "playing"
                             /\ pl.isDone = r1.players[ids[k]].isDone
       /\ \A p \in Seated(r1) : r1.players[p].disconnected => r2.players[p] = r1.players[p]
       /\ r2.dealerHand = <<cs[2 * n + 1], cs[2 * n + 2]>>
       /\ r2.order = r1.order
       /\ IF C32_Total(cs[2 * n + 1], cs[2 * n + 2]) = 21
          THEN r2.phase = "results" /\ w2.draw = w1.draw /\ w2.settle = w1.settle
          ELSE IF open # {}
          THEN /\ r2.phase = "player_turns"
               /\ r2.activePlayerId = ids[SetMin(open)]
               /\ w2.draw = w1.draw /\ w2.settle = w1.settle
          ELSE /\ r2.phase = "dealer_turn"
               /\ r2.activePlayerId = NoPlayer
               /\ w2.draw + w2.settle = w1.draw + w1.settle + 1

C32_DealRule ==
    LET w == World
    IN \A s \in Senders(room), amount \in table.bets :
          LET w1 == placeBet(w, s, amount)
              n == Len(C32_Dealt(w1.room))
          IN (w1 # w /\ allBet(w1.room))
                => \A cs \in [1..(2 * n + 2) -> table.ranks] : C32_DealOf(w1, cs)

\* A deal gave the first seat a blackjack and the turn to a later seat.
C32_Witness ==
    /\ registered
    /\ room.phase = "player_turns"
    /\ deals = 1
    /\ Len(room.dealerHand) = 2
    /\ \A p \in Seated(room) : Len(room.players[p].hands) = 1
                                  /\ Len(room.players[p].hands[1].cards) = 2
    /\ \E p \in Seated(room) :
          /\ room.players[p].hands[1].status = "blackjack"
          /\ room.players[p].isDone
          /\ PosIn(room, p) < PosIn(room, room.activePlayerId)
    /\ room.players[room.activePlayerId].hands[1].status = "playing"

\* C33: every card the dealer draws is broadcast on its own: the step that
\* adds a card starts with the clients holding the dealer hand without it and
\* ends with them holding the hand with it, still not in results; the results
\* snapshot comes in a later step, after the clients already hold the last
\* card.
C33_Draws ==
    /\ registered
    /\ Len(room.dealerHand) >= 2
    /\ Len(room'.dealerHand) = Len(room.dealerHand) + 1
    /\ SubSeq(room'.dealerHand, 1, Len(room.dealerHand)) = room.dealerHand

C33_OneCard ==
    C33_Draws
       => /\ lastBroadcast.dealerHand = room.dealerHand
          /\ lastBroadcast'.dealerHand = room'.dealerHand
          /\ lastBroadcast'.phase = room.phase
          /\ room.phase = "dealer_turn" => lastBroadcast'.phase # "results"

C33_Settles ==
    /\ registered
    /\ room.phase = "dealer_turn"
    /\ room'.phase = "results"

C33_ResultsLast ==
    C33_Settles
       => /\ room'.dealerHand = room.dealerHand
          /\ lastBroadcast.dealerHand = room.dealerHand
          /\ lastBroadcast.phase = "dealer_turn"
          /\ lastBroadcast'.phase = "results"

C33_DrawsObservable == [][C33_OneCard /\ C33_ResultsLast]_vars

\* The dealer drew at least twice and the round is settled on that hand.
C33_Witness ==
    /\ registered
    /\ room.phase = "results"
    /\ Len(room.dealerHand) >= 4
    /\ lastBroadcast = serializeRoom(room)
    /\ \E p \in Seated(room) : room.players[p].hands # <<>>

\* C34: the shoe never runs out: a draw from a shoe of fewer than 20 cards
\* first replaces it by a fresh shoe of 6 decks (312 cards), so the card is
\* always popped from at least 20 cards and the shoe holds between 19 and 311
\* cards after every draw.
C34_PoppedFrom(d) == IF d < 20 THEN 312 ELSE d

C34_DrawRule ==
    /\ deck \in 19..312
    /\ C34_PoppedFrom(deck) >= 20
    /\ drawCard(deck) = C34_PoppedFrom(deck) - 1
    /\ drawCard(deck) \in 19..311

C34_AfterDraw == deck' # deck => deck' \in 19..311

C34_ShoeNeverEmpty == [](C34_DrawRule) /\ [][C34_AfterDraw]_vars

\* The shoe is down to 19 cards: the next draw rebuilds it.
C34_Witness ==
    /\ deck = 19
    /\ drawCard(deck) = 311

\* C35: for every hand, calculateHandValue gives the total with as many aces
\* counted 11 as fit under 21 (none when even all aces as 1 exceed it) and
\* isSoft exactly when some ace is counted 11; the five tabled hands have the
\* tabled values; the server's copy and the shared copy agree.
C35_Low(rank) ==
    CASE rank = "A" -> 1 [] rank \in {"K", "Q", "J", "10"} -> 10
      [] rank = "2" -> 2 [] rank = "3" -> 3 [] rank = "4" -> 4 [] rank = "5" -> 5
      [] rank = "6" -> 6 [] rank = "7" -> 7 [] rank = "8" -> 8 [] rank = "9" -> 9

RECURSIVE C35_Hard(_)
C35_Hard(cards) == IF cards = <<>> THEN 0 ELSE C35_Low(Head(cards)) + C35_Hard(Tail(cards))

C35_High(cards) ==
    LET n == Cardinality({i \in DOMAIN cards : cards[i] = "A"})
        fit == {k \in 0..n : C35_Hard(cards) + 10 * k <= 21}
    IN IF fit = {} THEN 0 ELSE CHOOSE k \in fit : \A j \in fit : j <= k

C35_Expected(cards) ==
    [total |-> C35_Hard(cards) + 10 * C35_High(cards), isSoft |-> C35_High(cards) > 0]

C35_Table ==
    /\ calculateHandValue(<<"A", "A">>) = [total |-> 12, isSoft |-> TRUE]
    /\ calculateHandValue(<<"A", "A", "9">>) = [total |-> 21, isSoft |-> TRUE]
    /\ calculateHandValue(<<"10", "6", "6">>) = [total |-> 22, isSoft |-> FALSE]
    /\ calculateHandValue(<<"A", "9">>) = [total |-> 20, isSoft |-> TRUE]
    /\ calculateHandValue(<<"K", "Q">>) = [total |-> 20, isSoft |-> FALSE]

C35_HandValue ==
    /\ valueHeld.server = C35_Expected(cardsHeld)
    /\ valueHeld.shared = valueHeld.server
    /\ calculateHandValue(cardsHeld) = valueHeld.server
    /\ C35_Table

\* A hand whose only ace had to be counted 1, evaluated by both copies.
C35_Witness ==
    /\ cardsHeld = <<"A", "K", "K">>
    /\ valueHeld.server = [total |-> 21, isSoft |-> FALSE]
    /\ valueHeld.shared = [total |-> 21, isSoft |-> FALSE]

\* C36: whenever a registered room is in player_turns, the active-player
\* pointer names a seated player who is not done and owns a hand with status
\* playing, so that some player-action of theirs is accepted.
C36_CanAct(p) ==
    /\ p \in Seated(room)
    /\ ~room.players[p].isDone
    /\ \E i \in DOMAIN room.players[p].hands :
          /\ room.players[p].hands[i].status = "playing"
          /\ ActionAccepted(World, p, i)

C36_ActiveCanAct ==
    (registered /\ room.phase = "player_turns") => C36_CanAct(room.activePlayerId)

\* C37: when a registered room is in dealer_turn, and when it goes from there
\* to results, no player hand has status playing.
C37_NonePlaying(r) ==
    \A p \in Seated(r) : \A i \in DOMAIN r.players[p].hands :
        r.players[p].hands[i].status # "playing"

C37_InDealerTurn == (registered /\ room.phase = "dealer_turn") => C37_NonePlaying(room)

C37_ToResults ==
    (registered /\ registered' /\ room.phase = "dealer_turn" /\ room'.phase = "results")
       => C37_NonePlaying(room')

C37_NoPlayingHand == [](C37_InDealerTurn) /\ [][C37_ToResults]_vars

\* C38: in player_turns, dealer_turn and results every seated player whose
\* bet was taken owns at least one hand.
C38_WagerHasHand ==
    (registered /\ room.phase \in {"player_turns", "dealer_turn", "results"})
       => \A p \in Seated(room) :
             room.players[p].hasBet => room.players[p].hands # <<>>

\* C39: in betting every connected player who has not bet yet has chips for
\* some bet, so the round can always be dealt.
C39_CanBet ==
    (registered /\ room.phase = "betting")
       => \A p \in Seated(room) :
             (~room.players[p].disconnected /\ ~room.players[p].hasBet)
                => /\ room.players[p].chips >= 1
                   /\ placeBet(World, p, 1) # World

====
